---- MODULE Spec2Model ----
(***************************************************************************)
(* A model of the codeforces-api crate: the command model, the signer      *)
(* (as_codeforces_api_url), the request dispatcher (get / get_raw) and the *)
(* response resolver (the serde decoding of CFResponse / CFResult).        *)
(*                                                                         *)
(* Rust strings are sequences of one-character strings, ordered by their   *)
(* byte values; JSON values are trees; every call is a thread's record.    *)
(***************************************************************************)
EXTENDS Integers, Sequences, FiniteSets, TLC

VARIABLES pc, op, args, sig, fetches, response, ret, problem

vars == <<pc, op, args, sig, fetches, response, ret, problem>>

(***************************************************************************)
(* Strings and bytes                                                       *)
(***************************************************************************)

\* A Rust string literal: the sequence of its characters.
Str(s) == [i \in 1..Len(s) |-> SubSeq(s, i, i)]

\* The printable ASCII characters in byte order: 32 (space) to 95, and 97 to 126.
AsciiLow ==
  Str(" !\"#$%&'()*+,-./0123456789:;<=>?@ABCDEFGHIJKLMNOPQRSTUVWXYZ[\\]^_")
AsciiHigh == Str("abcdefghijklmnopqrstuvwxyz{|}~")

\* The byte value of each character (u8 of a one-byte UTF-8 character).
ByteTable ==
  [c \in {AsciiLow[i] : i \in 1..Len(AsciiLow)}
         \cup {AsciiHigh[i] : i \in 1..Len(AsciiHigh)} |->
     IF \E i \in 1..Len(AsciiLow) : AsciiLow[i] = c
     THEN 31 + (CHOOSE i \in 1..Len(AsciiLow) : AsciiLow[i] = c)
     ELSE 96 + (CHOOSE i \in 1..Len(AsciiHigh) : AsciiHigh[i] = c)]

ByteOf(c) == ByteTable[c]

\* <str as Ord>::cmp: byte-wise lexicographic, a proper prefix is Less.
RECURSIVE StrCmp(_, _)
StrCmp(a, b) ==
  IF a = <<>> THEN (IF b = <<>> THEN "Equal" ELSE "Less")
  ELSE IF b = <<>> THEN "Greater"
  ELSE IF Head(a) = Head(b) THEN StrCmp(Tail(a), Tail(b))
  ELSE IF ByteOf(Head(a)) < ByteOf(Head(b)) THEN "Less" ELSE "Greater"

\* Mutant of TupleCmp: the value is compared first, then the key.
TupleCmp_value_first(p, q) ==
  LET k == StrCmp(p[2], q[2])
  IN IF k = "Equal" THEN StrCmp(p[1], q[1]) ELSE k

\* <(&str, String) as Ord>::cmp: the key first, then the value.
TupleCmp(p, q) ==
  LET k == StrCmp(p[1], q[1])
  IN IF k = "Equal" THEN StrCmp(p[2], q[2]) ELSE k

\* slice::sort on the parameter vector: a stable sort by TupleCmp.
RECURSIVE SortInsert(_, _)
SortInsert(p, s) ==
  IF s = <<>> THEN <<p>>
  ELSE IF TupleCmp(p, Head(s)) = "Less" THEN <<p>> \o s
  ELSE <<Head(s)>> \o SortInsert(p, Tail(s))

RECURSIVE SortPrefix(_, _)
SortPrefix(s, n) ==
  IF n = 0 THEN <<>> ELSE SortInsert(s[n], SortPrefix(s, n - 1))

\* Mutant of sort: the vector is left in push order.
sort_skipped(s) == s

\* Mutant of sort: the vector is sorted in descending order.
sort_reversed(s) ==
  LET a == SortPrefix(s, Len(s))
  IN [i \in 1..Len(a) |-> a[Len(a) + 1 - i]]

sort(s) == SortPrefix(s, Len(s))

\* The decimal digits, as characters.
DigitChars == Str("0123456789")

\* u64::to_string / the digits of a non-negative integer.
RECURSIVE u64_to_string(_)
u64_to_string(n) ==
  IF n < 10 THEN <<DigitChars[n + 1]>>
  ELSE u64_to_string(n \div 10) \o <<DigitChars[(n % 10) + 1]>>

\* i64::to_string: a leading '-' when negative.
i64_to_string(n) ==
  IF n < 0 THEN Str("-") \o u64_to_string(0 - n) ELSE u64_to_string(n)

\* bool rendered by the `if *b { "true" } else { "false" }` of query_params.
bool_to_string(b) == IF b THEN Str("true") ELSE Str("false")

\* [String]::join(sep).
RECURSIVE join(_, _)
join(v, sep) ==
  IF v = <<>> THEN <<>>
  ELSE IF Len(v) = 1 THEN v[1]
  ELSE v[1] \o sep \o join(Tail(v), sep)

\* Option<T>.
None == [some |-> FALSE]
Some(x) == [some |-> TRUE, v |-> x]

(***************************************************************************)
(* The command model                                                       *)
(***************************************************************************)

API_STUB == Str("https://codeforces.com/api/")

Comments(id) ==
  [enum |-> "CFBlogEntryCommand", variant |-> "Comments", blog_entry_id |-> id]
View(id) ==
  [enum |-> "CFBlogEntryCommand", variant |-> "View", blog_entry_id |-> id]
Hacks(id) ==
  [enum |-> "CFContestCommand", variant |-> "Hacks", contest_id |-> id]
List(gym) ==
  [enum |-> "CFContestCommand", variant |-> "List", gym |-> gym]
RatingChanges(id) ==
  [enum |-> "CFContestCommand", variant |-> "RatingChanges", contest_id |-> id]
Standings(id, from, count, handles, room, show_unofficial) ==
  [enum |-> "CFContestCommand", variant |-> "Standings", contest_id |-> id,
   from |-> from, count |-> count, handles |-> handles, room |-> room,
   show_unofficial |-> show_unofficial]
ContestStatus(id, handle, from, count) ==
  [enum |-> "CFContestCommand", variant |-> "Status", contest_id |-> id,
   handle |-> handle, from |-> from, count |-> count]
Problems(tags, problemset_name) ==
  [enum |-> "CFProblemsetCommand", variant |-> "Problems", tags |-> tags,
   problemset_name |-> problemset_name]
RecentStatus(count, problemset_name) ==
  [enum |-> "CFProblemsetCommand", variant |-> "RecentStatus", count |-> count,
   problemset_name |-> problemset_name]
RecentActions(max_count) ==
  [enum |-> "CFRecentActionsCommand", variant |-> "CFRecentActionsCommand",
   max_count |-> max_count]
BlogEntries(handle) ==
  [enum |-> "CFUserCommand", variant |-> "BlogEntries", handle |-> handle]
Friends(only_online) ==
  [enum |-> "CFUserCommand", variant |-> "Friends", only_online |-> only_online]
Info(handles) ==
  [enum |-> "CFUserCommand", variant |-> "Info", handles |-> handles]
RatedList(active_only) ==
  [enum |-> "CFUserCommand", variant |-> "RatedList", active_only |-> active_only]
Rating(handle) ==
  [enum |-> "CFUserCommand", variant |-> "Rating", handle |-> handle]
UserStatus(handle, from, count) ==
  [enum |-> "CFUserCommand", variant |-> "Status", handle |-> handle,
   from |-> from, count |-> count]

\* `if let Some(x) = field { res.push((key, render(x))) }`.
PushSome(key, field, render(_)) ==
  IF field.some THEN <<<<Str(key), render(field.v)>>>> ELSE <<>>

\* `res.push((key, value))`.
Push(key, value) == <<<<Str(key), value>>>>

Identity(s) == s

\* Mutant of JoinSemicolon: the elements are joined by a comma.
JoinComma(v) == join(v, Str(","))

JoinSemicolon(v) == join(v, Str(";"))

query_params_blog_entry(c) ==
  CASE c.variant = "Comments" -> Push("blogEntryId", i64_to_string(c.blog_entry_id))
    [] c.variant = "View" -> Push("blogEntryId", i64_to_string(c.blog_entry_id))

query_params_contest(c) ==
  CASE c.variant = "Hacks" -> Push("contestId", i64_to_string(c.contest_id))
    [] c.variant = "List" -> PushSome("gym", c.gym, bool_to_string)
    [] c.variant = "RatingChanges" -> Push("contestId", i64_to_string(c.contest_id))
    [] c.variant = "Standings" ->
         Push("contestId", i64_to_string(c.contest_id))
         \o PushSome("from", c.from, i64_to_string)
         \o PushSome("count", c.count, i64_to_string)
         \o PushSome("handles", c.handles, JoinSemicolon)
         \o PushSome("room", c.room, i64_to_string)
         \o PushSome("showUnofficial", c.show_unofficial, bool_to_string)
    [] c.variant = "Status" ->
         Push("contestId", i64_to_string(c.contest_id))
         \o PushSome("handle", c.handle, Identity)
         \o PushSome("from", c.from, i64_to_string)
         \o PushSome("count", c.count, i64_to_string)

query_params_problemset(c) ==
  CASE c.variant = "Problems" ->
         PushSome("tags", c.tags, JoinSemicolon)
         \o PushSome("problemsetName", c.problemset_name, Identity)
    [] c.variant = "RecentStatus" ->
         Push("count", i64_to_string(c.count))
         \o PushSome("problemsetName", c.problemset_name, Identity)

query_params_recent_actions(c) == Push("maxCount", i64_to_string(c.max_count))

query_params_user(c) ==
  CASE c.variant = "BlogEntries" -> Push("handle", c.handle)
    [] c.variant = "Friends" -> PushSome("onlyOnline", c.only_online, bool_to_string)
    [] c.variant = "Info" -> Push("handles", JoinSemicolon(c.handles))
    [] c.variant = "RatedList" -> PushSome("activeOnly", c.active_only, bool_to_string)
    [] c.variant = "Rating" -> Push("handle", c.handle)
    [] c.variant = "Status" ->
         Push("handle", c.handle)
         \o PushSome("from", c.from, i64_to_string)
         \o PushSome("count", c.count, i64_to_string)

\* CFAPIRequestable::query_params, dispatched on the implementing type.
query_params(c) ==
  CASE c.enum = "CFBlogEntryCommand" -> query_params_blog_entry(c)
    [] c.enum = "CFContestCommand" -> query_params_contest(c)
    [] c.enum = "CFProblemsetCommand" -> query_params_problemset(c)
    [] c.enum = "CFRecentActionsCommand" -> query_params_recent_actions(c)
    [] c.enum = "CFUserCommand" -> query_params_user(c)

\* Mutant of method_name_of: the arm of CFUserCommand::Status was pasted from
\* CFContestCommand::Status and kept its string.
method_name_of_pasted(c) ==
  CASE c.enum = "CFBlogEntryCommand" ->
         (CASE c.variant = "Comments" -> "blogEntry.comments"
            [] c.variant = "View" -> "blogEntry.view")
    [] c.enum = "CFContestCommand" ->
         (CASE c.variant = "Hacks" -> "contest.hacks"
            [] c.variant = "List" -> "contest.list"
            [] c.variant = "RatingChanges" -> "contest.ratingChanges"
            [] c.variant = "Standings" -> "contest.standings"
            [] c.variant = "Status" -> "contest.status")
    [] c.enum = "CFProblemsetCommand" ->
         (CASE c.variant = "Problems" -> "problemset.problems"
            [] c.variant = "RecentStatus" -> "problemset.recentStatus")
    [] c.enum = "CFRecentActionsCommand" -> "recentActions"
    [] c.enum = "CFUserCommand" ->
         (CASE c.variant = "BlogEntries" -> "user.blogEntries"
            [] c.variant = "Friends" -> "user.friends"
            [] c.variant = "Info" -> "user.info"
            [] c.variant = "RatedList" -> "user.ratedList"
            [] c.variant = "Rating" -> "user.rating"
            [] c.variant = "Status" -> "contest.status")

\* CFAPIRequestable::method_name, as a TLA+ string.
method_name_of(c) ==
  CASE c.enum = "CFBlogEntryCommand" ->
         (CASE c.variant = "Comments" -> "blogEntry.comments"
            [] c.variant = "View" -> "blogEntry.view")
    [] c.enum = "CFContestCommand" ->
         (CASE c.variant = "Hacks" -> "contest.hacks"
            [] c.variant = "List" -> "contest.list"
            [] c.variant = "RatingChanges" -> "contest.ratingChanges"
            [] c.variant = "Standings" -> "contest.standings"
            [] c.variant = "Status" -> "contest.status")
    [] c.enum = "CFProblemsetCommand" ->
         (CASE c.variant = "Problems" -> "problemset.problems"
            [] c.variant = "RecentStatus" -> "problemset.recentStatus")
    [] c.enum = "CFRecentActionsCommand" -> "recentActions"
    [] c.enum = "CFUserCommand" ->
         (CASE c.variant = "BlogEntries" -> "user.blogEntries"
            [] c.variant = "Friends" -> "user.friends"
            [] c.variant = "Info" -> "user.info"
            [] c.variant = "RatedList" -> "user.ratedList"
            [] c.variant = "Rating" -> "user.rating"
            [] c.variant = "Status" -> "user.status")

method_name(c) == Str(method_name_of(c))

(***************************************************************************)
(* The canonical signer: as_codeforces_api_url                             *)
(***************************************************************************)

\* The nonce is six draws of rng.gen_range(0..=9).
NonceLen == 6

\* Sha512 digests are 64 bytes.
DigestLen == 64

\* Sha512::new().update(msg).finalize(): the sha2 crate is outside the
\* repository; its digest is represented by a deterministic DigestLen-byte
\* checksum of the message bytes (every byte and its position count).
RECURSIVE Absorb(_, _, _)
Absorb(msg, lo, hi) ==
  IF lo > hi THEN 7
  ELSE IF lo = hi THEN (ByteOf(msg[lo]) * 131 + lo) % 65521
  ELSE LET mid == (lo + hi) \div 2
       IN (Absorb(msg, lo, mid) * 257 + Absorb(msg, mid + 1, hi) * 31 + 11)
          % 65521

Sha512(msg) ==
  LET h == Absorb(msg, 1, Len(msg))
  IN [i \in 1..DigestLen |-> (h * i + i * i + (h \div 256)) % 256]

HexChars == Str("0123456789abcdef")

\* Mutant of hex_encode: the low nibble is written first.
hex_encode_swapped(bytes) ==
  [i \in 1..(2 * Len(bytes)) |->
     IF i % 2 = 1 THEN HexChars[(bytes[(i + 1) \div 2] % 16) + 1]
     ELSE HexChars[(bytes[i \div 2] \div 16) + 1]]

\* hex::encode: two lower-case hex digits per byte, high nibble first.
hex_encode(bytes) ==
  [i \in 1..(2 * Len(bytes)) |->
     IF i % 2 = 1 THEN HexChars[(bytes[(i + 1) \div 2] \div 16) + 1]
     ELSE HexChars[(bytes[i \div 2] % 16) + 1]]

\* (0..6).map(|_| rng.gen_range::<u8, _>(0..=9).to_string()).collect():
\* `draws` are the values the generator returned, in order.
RECURSIVE collect_nonce(_)
collect_nonce(draws) ==
  IF draws = <<>> THEN <<>>
  ELSE u64_to_string(Head(draws)) \o collect_nonce(Tail(draws))

\* Mutant of pop: the trailing separator is kept.
pop_kept(s) == s

\* String::pop: removes the last character, if there is one.
pop(s) == IF s = <<>> THEN s ELSE SubSeq(s, 1, Len(s) - 1)

\* One iteration of `for (key, val) in params` on one of the two buffers:
\* key, "=", val, "&".
write_pair(buf, p) == buf \o p[1] \o Str("=") \o p[2] \o Str("&")

RECURSIVE write_params(_, _)
write_params(buf, params) ==
  IF params = <<>> THEN buf
  ELSE write_params(write_pair(buf, Head(params)), Tail(params))

\* Mutant of push_common: the second push was pasted from the third and kept
\* its key.
push_common_key_as_time(params, api_key, ctime) ==
  params \o Push("time", api_key) \o Push("time", u64_to_string(ctime))

\* command.query_params() with apiKey and time pushed.
push_common(params, api_key, ctime) ==
  params \o Push("apiKey", api_key) \o Push("time", u64_to_string(ctime))

\* Mutant of url_head: the '?' after the method name is forgotten.
url_head_no_question(command) == API_STUB \o method_name(command)

\* The prefix of the url before the loop.
url_head(command) == API_STUB \o method_name(command) \o Str("?")

\* The prefix of to_hash before the loop.
to_hash_head(rand, command) ==
  rand \o Str("/") \o method_name(command) \o Str("?")

\* to_hash after the loop: pop, then '#' and the secret.
to_hash_tail(buf, api_secret) == pop(buf) \o Str("#") \o api_secret

\* The url after the loop: "apiSig=", the nonce, the hex digest.
url_tail(buf, rand, api_sig) ==
  buf \o Str("apiSig=") \o rand \o hex_encode(api_sig)

\* Mutant of as_codeforces_api_url: the secret is pushed as a parameter of
\* its own, beside the key.
as_codeforces_api_url_secret_pushed(command, api_key, api_secret, draws, now) ==
  LET rand == collect_nonce(draws)
  IN IF ~now.ok
     THEN [panic |-> TRUE, rand |-> rand, now |-> now]
     ELSE LET ctime == now.secs
              params == sort(push_common(query_params(command), api_key, ctime)
                             \o Push("apiSecret", api_secret))
              url0 == write_params(url_head(command), params)
              to_hash == to_hash_tail(
                           write_params(to_hash_head(rand, command), params),
                           api_secret)
              api_sig == Sha512(to_hash)
          IN [panic |-> FALSE, rand |-> rand, now |-> now, ctime |-> ctime,
              params |-> params, to_hash |-> to_hash, api_sig |-> api_sig,
              url |-> url_tail(url0, rand, api_sig)]

\* Mutant of as_codeforces_api_url: a failed clock read is replaced by the
\* epoch (unwrap_or_default) instead of panicking.
as_codeforces_api_url_epoch(command, api_key, api_secret, draws, now) ==
  LET rand == collect_nonce(draws)
      ctime == IF now.ok THEN now.secs ELSE 0
      params == sort(push_common(query_params(command), api_key, ctime))
      url0 == write_params(url_head(command), params)
      to_hash == to_hash_tail(
                   write_params(to_hash_head(rand, command), params),
                   api_secret)
      api_sig == Sha512(to_hash)
  IN [panic |-> FALSE, rand |-> rand, now |-> now, ctime |-> ctime,
      params |-> params, to_hash |-> to_hash, api_sig |-> api_sig,
      url |-> url_tail(url0, rand, api_sig)]

\* as_codeforces_api_url with its two nondeterministic reads made explicit:
\* `draws`, what the random generator returned, and `now`, what the clock
\* read returned (Ok(seconds since the epoch) or Err).  The result carries
\* the function's locals; .url is the value returned.  A failed clock read
\* makes .duration_since(..).unwrap() panic.
as_codeforces_api_url(command, api_key, api_secret, draws, now) ==
  LET rand == collect_nonce(draws)
  IN IF ~now.ok
     THEN [panic |-> TRUE, rand |-> rand, now |-> now]
     ELSE LET ctime == now.secs
              params == sort(push_common(query_params(command), api_key, ctime))
              url0 == write_params(url_head(command), params)
              to_hash == to_hash_tail(
                           write_params(to_hash_head(rand, command), params),
                           api_secret)
              api_sig == Sha512(to_hash)
          IN [panic |-> FALSE, rand |-> rand, now |-> now, ctime |-> ctime,
              params |-> params, to_hash |-> to_hash, api_sig |-> api_sig,
              url |-> url_tail(url0, rand, api_sig)]

(***************************************************************************)
(* JSON values and the serde decoding of the response types                *)
(***************************************************************************)

\* A parsed JSON value.  JFloat(n) is a number written with a fraction.
JNull == [k |-> "null"]
JBool(b) == [k |-> "bool", b |-> b]
JInt(n) == [k |-> "int", n |-> n]
JFloat(n) == [k |-> "float", n |-> n]
JStr(s) == [k |-> "str", s |-> s]
JArr(a) == [k |-> "arr", a |-> a]
JObj(o) == [k |-> "obj", o |-> o]

\* What a Deserialize impl returns.
DeOk(v) == [ok |-> TRUE, v |-> v]
DeErr(e) == [ok |-> FALSE, e |-> e]

\* The types that derive Deserialize, as data.
T_i64 == [t |-> "i64"]
T_f64 == [t |-> "f64"]
T_bool == [t |-> "bool"]
T_String == [t |-> "String"]
T_Option(ty) == [t |-> "Option", of |-> ty]
T_Vec(ty) == [t |-> "Vec", of |-> ty]
T_Enum(name, names) == [t |-> "enum", name |-> name, names |-> names]
T_Struct(name, fields) == [t |-> "struct", name |-> name, fields |-> fields]
T_Untagged(name, variants) ==
  [t |-> "untagged", name |-> name, variants |-> variants]

\* Mutant of Field: #[serde(skip_deserializing)] is left out.
Field_never_skipped(rs, js, ty, skip) ==
  [rs |-> rs, js |-> js, ty |-> ty, skip |-> FALSE]

\* A struct field: its Rust name, its JSON name (rename / rename_all), its
\* type, and whether it is #[serde(skip_deserializing)].
Field(rs, js, ty, skip) == [rs |-> rs, js |-> js, ty |-> ty, skip |-> skip]

\* An untagged enum's variant.
Variant(name, ty) == [name |-> name, ty |-> ty]

\* responses.rs lines 110-130
CFUser ==
  T_Struct("CFUser",
  <<Field("handle", "handle", T_String, FALSE),
     Field("email", "email", T_Option(T_String), FALSE),
     Field("vk_id", "vkId", T_Option(T_String), FALSE),
     Field("open_id", "openId", T_Option(T_String), FALSE),
     Field("first_name", "firstName", T_Option(T_String), FALSE),
     Field("last_name", "lastName", T_Option(T_String), FALSE),
     Field("country", "country", T_Option(T_String), FALSE),
     Field("city", "city", T_Option(T_String), FALSE),
     Field("organization", "organization", T_Option(T_String), FALSE),
     Field("contribution", "contribution", T_i64, FALSE),
     Field("rank", "rank", T_Option(T_String), FALSE),
     Field("rating", "rating", T_Option(T_i64), FALSE),
     Field("max_rank", "maxRank", T_Option(T_String), FALSE),
     Field("max_rating", "maxRating", T_Option(T_i64), FALSE),
     Field("last_online_time_seconds", "lastOnlineTimeSeconds", T_i64, FALSE),
     Field("registration_time_seconds", "registrationTimeSeconds", T_i64, FALSE),
     Field("friend_of_count", "friendOfCount", T_i64, FALSE),
     Field("avatar", "avatar", T_String, FALSE),
     Field("title_photo", "titlePhoto", T_String, FALSE)>>)

\* responses.rs lines 146-158
CFBlogEntry ==
  T_Struct("CFBlogEntry",
  <<Field("id", "id", T_i64, FALSE),
     Field("original_locale", "originalLocale", T_String, FALSE),
     Field("creation_time_seconds", "creationTimeSeconds", T_i64, FALSE),
     Field("author_handle", "authorHandle", T_String, FALSE),
     Field("title", "title", T_String, FALSE),
     Field("content", "content", T_Option(T_String), FALSE),
     Field("locale", "locale", T_String, FALSE),
     Field("modification_time_seconds", "modificationTimeSeconds", T_i64, FALSE),
     Field("allow_view_history", "allowViewHistory", T_bool, FALSE),
     Field("tags", "tags", T_Vec(T_String), FALSE),
     Field("rating", "rating", T_i64, FALSE)>>)

\* responses.rs lines 174-182
CFComment ==
  T_Struct("CFComment",
  <<Field("id", "id", T_i64, FALSE),
     Field("creation_time_seconds", "creationTimeSeconds", T_i64, FALSE),
     Field("commentator_handle", "commentatorHandle", T_String, FALSE),
     Field("locale", "locale", T_String, FALSE),
     Field("text", "text", T_String, FALSE),
     Field("parent_comment_id", "parentCommentId", T_Option(T_i64), FALSE),
     Field("rating", "rating", T_i64, FALSE)>>)

\* responses.rs lines 198-202
CFRecentAction ==
  T_Struct("CFRecentAction",
  <<Field("time_seconds", "timeSeconds", T_i64, FALSE),
     Field("blog_entry", "blogEntry", T_Option(CFBlogEntry), FALSE),
     Field("comment", "comment", T_Option(CFComment), FALSE)>>)

\* responses.rs lines 218-226
CFRatingChange ==
  T_Struct("CFRatingChange",
  <<Field("contest_id", "contestId", T_i64, FALSE),
     Field("contest_name", "contestName", T_String, FALSE),
     Field("handle", "handle", T_String, FALSE),
     Field("rank", "rank", T_i64, FALSE),
     Field("rating_update_time_seconds", "ratingUpdateTimeSeconds", T_i64, FALSE),
     Field("old_rating", "oldRating", T_i64, FALSE),
     Field("new_rating", "newRating", T_i64, FALSE)>>)

\* responses.rs lines 240-245
CFContestType ==
  T_Enum("CFContestType", {"CF", "IOI", "ICPC"})

\* responses.rs lines 260-266
CFContestPhase ==
  T_Enum("CFContestPhase", {"BEFORE", "CODING", "PENDING_SYSTEM_TEST", "SYSTEM_TEST", "FINISHED"})

\* responses.rs lines 303-321
CFContest ==
  T_Struct("CFContest",
  <<Field("id", "id", T_i64, FALSE),
     Field("name", "name", T_String, FALSE),
     Field("contest_type", "type", CFContestType, FALSE),
     Field("phase", "phase", CFContestPhase, FALSE),
     Field("duration_seconds", "durationSeconds", T_i64, FALSE),
     Field("start_time_seconds", "startTimeSeconds", T_Option(T_i64), FALSE),
     Field("relative_time_seconds", "relativeTimeSeconds", T_Option(T_i64), FALSE),
     Field("prepared_by", "preparedBy", T_Option(T_String), FALSE),
     Field("website_url", "websiteUrl", T_Option(T_String), FALSE),
     Field("description", "description", T_Option(T_String), FALSE),
     Field("difficulty", "difficulty", T_Option(T_i64), FALSE),
     Field("kind", "kind", T_Option(T_String), FALSE),
     Field("icpc_region", "icpcRegion", T_Option(T_String), FALSE),
     Field("country", "country", T_Option(T_String), FALSE),
     Field("city", "city", T_Option(T_String), FALSE),
     Field("season", "season", T_Option(T_String), FALSE)>>)

\* responses.rs lines 400-403
CFProblemType ==
  T_Enum("CFProblemType", {"PROGRAMMING", "QUESTION"})

\* responses.rs lines 419-431
CFProblem ==
  T_Struct("CFProblem",
  <<Field("contest_id", "contestId", T_Option(T_i64), FALSE),
     Field("problemset_name", "problemsetName", T_Option(T_String), FALSE),
     Field("index", "index", T_Option(T_String), FALSE),
     Field("name", "name", T_String, FALSE),
     Field("problem_type", "type", CFProblemType, FALSE),
     Field("points", "points", T_Option(T_f64), FALSE),
     Field("rating", "rating", T_Option(T_i64), FALSE),
     Field("tags", "tags", T_Vec(T_String), FALSE),
     Field("input_testcases", "inputTestcases", T_Option(T_Vec(T_String)), TRUE)>>)

\* responses.rs lines 336-342
CFParticipantType ==
  T_Enum("CFParticipantType", {"CONTESTANT", "PRACTICE", "VIRTUAL", "MANAGER", "OUT_OF_COMPETITION"})

\* responses.rs lines 383-385
CFMember ==
  T_Struct("CFMember",
  <<Field("handle", "handle", T_String, FALSE)>>)

\* responses.rs lines 358-367
CFParty ==
  T_Struct("CFParty",
  <<Field("contest_id", "contestId", T_Option(T_i64), FALSE),
     Field("members", "members", T_Vec(CFMember), FALSE),
     Field("participant_type", "participantType", CFParticipantType, FALSE),
     Field("team_id", "teamId", T_Option(T_i64), FALSE),
     Field("team_name", "teamName", T_Option(T_String), FALSE),
     Field("ghost", "ghost", T_bool, FALSE),
     Field("room", "room", T_Option(T_i64), FALSE),
     Field("start_time_seconds", "startTimeSeconds", T_Option(T_i64), FALSE)>>)

\* responses.rs lines 682-685
CFProblemResultType ==
  T_Enum("CFProblemResultType", {"PRELIMINARY", "FINAL"})

\* responses.rs lines 701-708
CFProblemResult ==
  T_Struct("CFProblemResult",
  <<Field("points", "points", T_f64, FALSE),
     Field("penalty", "penalty", T_Option(T_i64), FALSE),
     Field("rejected_attempt_count", "rejectedAttemptCount", T_i64, FALSE),
     Field("problem_result_type", "type", CFProblemResultType, FALSE),
     Field("best_submission_time_seconds", "bestSubmissionTimeSeconds", T_Option(T_i64), FALSE)>>)

\* responses.rs lines 658-667
CFRanklistRow ==
  T_Struct("CFRanklistRow",
  <<Field("party", "party", CFParty, FALSE),
     Field("rank", "rank", T_i64, FALSE),
     Field("points", "points", T_f64, FALSE),
     Field("penalty", "penalty", T_i64, FALSE),
     Field("successful_hack_count", "successfulHackCount", T_i64, FALSE),
     Field("unsuccessful_hack_count", "unsuccessfulHackCount", T_i64, FALSE),
     Field("problem_results", "problemResults", T_Vec(CFProblemResult), FALSE),
     Field("last_submission_time_seconds", "lastSubmissionTimeSeconds", T_Option(T_i64), FALSE)>>)

\* responses.rs lines 283-287
CFContestStandings ==
  T_Struct("CFContestStandings",
  <<Field("contest", "contest", CFContest, FALSE),
     Field("problems", "problems", T_Vec(CFProblem), FALSE),
     Field("rows", "rows", T_Vec(CFRanklistRow), FALSE)>>)

\* responses.rs lines 447-451
CFProblemStatistics ==
  T_Struct("CFProblemStatistics",
  <<Field("contest_id", "contestId", T_Option(T_i64), FALSE),
     Field("index", "index", T_Option(T_String), FALSE),
     Field("solved_count", "solvedCount", T_i64, FALSE)>>)

\* responses.rs lines 468-471
CFProblemset ==
  T_Struct("CFProblemset",
  <<Field("problems", "problems", T_Vec(CFProblem), FALSE),
     Field("problem_statistics", "problemStatistics", T_Vec(CFProblemStatistics), FALSE)>>)

\* responses.rs lines 486-504
CFSubmissionVerdict ==
  T_Enum("CFSubmissionVerdict", {"FAILED", "OK", "PARTIAL", "COMPILATION_ERROR", "RUNTIME_ERROR", "WRONG_ANSWER", "PRESENTATION_ERROR", "TIME_LIMIT_EXCEEDED", "MEMORY_LIMIT_EXCEEDED", "IDLENESS_LIMIT_EXCEEDED", "SECURITY_VIOLATED", "CRASHED", "INPUT_PREPARATION_CRASHED", "CHALLENGED", "SKIPPED", "TESTING", "REJECTED"})

\* responses.rs lines 519-544
CFTestset ==
  T_Enum("CFTestset", {"SAMPLES", "PRETESTS", "TESTS", "CHALLENGES", "TESTS1", "TESTS2", "TESTS3", "TESTS4", "TESTS5", "TESTS6", "TESTS7", "TESTS8", "TESTS9", "TESTS10"})

\* responses.rs lines 560-574
CFSubmission ==
  T_Struct("CFSubmission",
  <<Field("id", "id", T_i64, FALSE),
     Field("contest_id", "contestId", T_Option(T_i64), FALSE),
     Field("creation_time_seconds", "creationTimeSeconds", T_i64, FALSE),
     Field("relative_time_seconds", "relativeTimeSeconds", T_Option(T_i64), FALSE),
     Field("problem", "problem", CFProblem, FALSE),
     Field("author", "author", CFParty, FALSE),
     Field("programming_language", "programmingLanguage", T_String, FALSE),
     Field("verdict", "verdict", T_Option(CFSubmissionVerdict), FALSE),
     Field("testset", "testset", CFTestset, FALSE),
     Field("passed_test_count", "passedTestCount", T_i64, FALSE),
     Field("time_consumed_millis", "timeConsumedMillis", T_i64, FALSE),
     Field("memory_consumed_bytes", "memoryConsumedBytes", T_i64, FALSE),
     Field("points", "points", T_Option(T_f64), FALSE)>>)

\* responses.rs lines 589-598
CFHackVerdict ==
  T_Enum("CFHackVerdict", {"HACK_SUCCESSFUL", "HACK_UNSUCCESSFUL", "INVALID_INPUT", "GENERATOR_INCOMPILABLE", "GENERATOR_CRASHED", "IGNORED", "TESTING", "OTHER"})

\* responses.rs lines 613-617
CFJudgeProtocol ==
  T_Struct("CFJudgeProtocol",
  <<Field("manual", "manual", T_String, FALSE),
     Field("protocol", "protocol", T_String, FALSE),
     Field("verdict", "verdict", T_String, FALSE)>>)

\* responses.rs lines 633-642
CFHack ==
  T_Struct("CFHack",
  <<Field("id", "id", T_i64, FALSE),
     Field("creation_time_seconds", "creationTimeSeconds", T_i64, FALSE),
     Field("hacker", "hacker", CFParty, FALSE),
     Field("defender", "defender", CFParty, FALSE),
     Field("verdict", "verdict", T_Option(CFHackVerdict), FALSE),
     Field("problem", "problem", CFProblem, FALSE),
     Field("test", "test", T_Option(T_String), FALSE),
     Field("judge_protocol", "judgeProtocol", T_Option(CFJudgeProtocol), FALSE)>>)

\* Mutant of CFResult: the variants are declared in alphabetical order.
CFResult_alphabetical ==
  T_Untagged("CFResult",
  <<Variant("CFBlogEntry", CFBlogEntry),
    Variant("CFBlogEntryVec", T_Vec(CFBlogEntry)),
    Variant("CFCommentVec", T_Vec(CFComment)),
    Variant("CFContestStandings", CFContestStandings),
    Variant("CFContestVec", T_Vec(CFContest)),
    Variant("CFFriends", T_Vec(T_String)),
    Variant("CFHackVec", T_Vec(CFHack)),
    Variant("CFProblemset", CFProblemset),
    Variant("CFRatingChangeVec", T_Vec(CFRatingChange)),
    Variant("CFRecentActionVec", T_Vec(CFRecentAction)),
    Variant("CFSubmissionVec", T_Vec(CFSubmission)),
    Variant("CFUserVec", T_Vec(CFUser))>>)

\* Mutant of CFResult: a single-user variant is declared after the lists.
CFResult_with_user ==
  T_Untagged("CFResult",
  <<Variant("CFCommentVec", T_Vec(CFComment)),
    Variant("CFBlogEntry", CFBlogEntry),
    Variant("CFHackVec", T_Vec(CFHack)),
    Variant("CFContestVec", T_Vec(CFContest)),
    Variant("CFRatingChangeVec", T_Vec(CFRatingChange)),
    Variant("CFContestStandings", CFContestStandings),
    Variant("CFSubmissionVec", T_Vec(CFSubmission)),
    Variant("CFProblemset", CFProblemset),
    Variant("CFRecentActionVec", T_Vec(CFRecentAction)),
    Variant("CFBlogEntryVec", T_Vec(CFBlogEntry)),
    Variant("CFFriends", T_Vec(T_String)),
    Variant("CFUserVec", T_Vec(CFUser)),
    Variant("CFUser", CFUser)>>)

\* responses.rs lines 79-94: #[serde(untagged)], variants in declaration order.
CFResult ==
  T_Untagged("CFResult",
  <<Variant("CFCommentVec", T_Vec(CFComment)),
    Variant("CFBlogEntry", CFBlogEntry),
    Variant("CFHackVec", T_Vec(CFHack)),
    Variant("CFContestVec", T_Vec(CFContest)),
    Variant("CFRatingChangeVec", T_Vec(CFRatingChange)),
    Variant("CFContestStandings", CFContestStandings),
    Variant("CFSubmissionVec", T_Vec(CFSubmission)),
    Variant("CFProblemset", CFProblemset),
    Variant("CFRecentActionVec", T_Vec(CFRecentAction)),
    Variant("CFBlogEntryVec", T_Vec(CFBlogEntry)),
    Variant("CFFriends", T_Vec(T_String)),
    Variant("CFUserVec", T_Vec(CFUser))>>)

\* responses.rs lines 10-15: rename_all = "SCREAMING_SNAKE_CASE".
CFResponseStatus == T_Enum("CFResponseStatus", {"OK", "FAILED"})

\* responses.rs lines 34-39.
CFResponse ==
  T_Struct("CFResponse",
  <<Field("status", "status", CFResponseStatus, FALSE),
    Field("result", "result", T_Option(CFResult), FALSE),
    Field("comment", "comment", T_Option(T_String), FALSE)>>)

\* The first error of a sequence of decoding results.
FirstErr(rs) ==
  rs[CHOOSE i \in 1..Len(rs) : ~rs[i].ok /\ \A j \in 1..(i - 1) : rs[j].ok]

\* All the results succeeded.
AllOk(rs) == \A i \in 1..Len(rs) : rs[i].ok

\* Default::default() of a skipped field (the only one is an Option).
DefaultOf(ty) == None

\* The struct built from its fields' decoded values.
BuildStruct(fields, rs) ==
  [n \in {fields[i].rs : i \in 1..Len(fields)} |->
     rs[CHOOSE i \in 1..Len(fields) : fields[i].rs = n].v]

\* The fields a sequence carries: those not skipped.
IsActive(f) == ~f.skip

RECURSIVE De(_, _), DeStructMap(_, _), DeStructSeq(_, _), DeUntagged(_, _, _)

\* T::deserialize on a JSON value.
De(ty, j) ==
  CASE ty.t = "i64" ->
         IF j.k = "int" THEN DeOk(j.n) ELSE DeErr("invalid type: expected i64")
    [] ty.t = "f64" ->
         IF j.k = "int" THEN DeOk([whole |-> j.n, fraction |-> FALSE])
         ELSE IF j.k = "float" THEN DeOk([whole |-> j.n, fraction |-> TRUE])
         ELSE DeErr("invalid type: expected f64")
    [] ty.t = "bool" ->
         IF j.k = "bool" THEN DeOk(j.b) ELSE DeErr("invalid type: expected bool")
    [] ty.t = "String" ->
         IF j.k = "str" THEN DeOk(j.s) ELSE DeErr("invalid type: expected string")
    [] ty.t = "Option" ->
         IF j.k = "null" THEN DeOk(None)
         ELSE LET r == De(ty.of, j) IN IF r.ok THEN DeOk(Some(r.v)) ELSE r
    [] ty.t = "Vec" ->
         IF j.k # "arr" THEN DeErr("invalid type: expected a sequence")
         ELSE LET rs == [i \in 1..Len(j.a) |-> De(ty.of, j.a[i])]
              IN IF AllOk(rs) THEN DeOk([i \in 1..Len(rs) |-> rs[i].v])
                 ELSE FirstErr(rs)
    [] ty.t = "enum" ->
         IF j.k = "str" /\ j.s \in ty.names THEN DeOk(j.s)
         ELSE DeErr("unknown variant")
    [] ty.t = "struct" ->
         IF j.k = "obj" THEN DeStructMap(ty, j.o)
         ELSE IF j.k = "arr" THEN DeStructSeq(ty, j.a)
         ELSE DeErr("invalid type: expected struct")
    [] ty.t = "untagged" -> DeUntagged(ty, j, 1)

\* The derived visit_map: unknown keys are ignored, a missing Option field
\* is None, any other missing field is an error, a skipped field is never
\* read.
DeStructMap(ty, o) ==
  LET fs == ty.fields
      rs == [i \in 1..Len(fs) |->
               IF fs[i].skip THEN DeOk(DefaultOf(fs[i].ty))
               ELSE IF fs[i].js \in DOMAIN o THEN De(fs[i].ty, o[fs[i].js])
               ELSE IF fs[i].ty.t = "Option" THEN DeOk(None)
               ELSE DeErr("missing field")]
  IN IF AllOk(rs) THEN DeOk(BuildStruct(fs, rs)) ELSE FirstErr(rs)

\* The derived visit_seq: the fields that are not skipped, by position; too
\* few or too many elements is an error.
DeStructSeq(ty, a) ==
  LET fs == ty.fields
      active == SelectSeq(fs, IsActive)
      place(i) == Cardinality({k \in 1..i : ~fs[k].skip})
      rs == [i \in 1..Len(fs) |->
               IF fs[i].skip THEN DeOk(DefaultOf(fs[i].ty))
               ELSE De(fs[i].ty, a[place(i)])]
  IN IF Len(a) # Len(active) THEN DeErr("invalid length")
     ELSE IF AllOk(rs) THEN DeOk(BuildStruct(fs, rs)) ELSE FirstErr(rs)

\* #[serde(untagged)]: the variants are tried in declaration order from
\* variant i on; the first that decodes is the result.
DeUntagged(ty, j, i) ==
  IF i > Len(ty.variants)
  THEN DeErr("data did not match any variant of untagged enum")
  ELSE LET r == De(ty.variants[i].ty, j)
       IN IF r.ok THEN DeOk([variant |-> ty.variants[i].name, v |-> r.v])
          ELSE DeUntagged(ty, j, i + 1)

(***************************************************************************)
(* The request dispatcher                                                  *)
(***************************************************************************)

\* What the transport (reqwest::blocking::get, then reading the body) can
\* do: fail to fetch, deliver a response whose body cannot be read, or
\* deliver a body.  A body is text that is not JSON, or a JSON value.
FetchErr(e) == [kind |-> "fetch_err", e |-> e]
BodyErr(e) == [kind |-> "body_err", e |-> e]
Body(b) == [kind |-> "body", body |-> b]
NotJson(text) == [json |-> FALSE, text |-> text]
Json(j) == [json |-> TRUE, j |-> j]

\* Result<_, Error> and the Error variants; a panic unwinds instead.
ROk(v) == [kind |-> "Ok", v |-> v]
RErr(e) == [kind |-> "Err", error |-> e]
Panicked == [kind |-> "panic"]
Http(e) == [variant |-> "Http", e |-> e]
Parse(e) == [variant |-> "Parse", e |-> e]
CodeforcesApi(c) == [variant |-> "CodeforcesApi", s |-> c]
Testcases(m) == [variant |-> "Testcases", s |-> m]

\* Response::json::<CFResponse>(): reads the body, then decodes it.
res_json(outcome) ==
  IF outcome.kind = "body_err" THEN DeErr(outcome.e)
  ELSE IF ~outcome.body.json THEN DeErr("expected value")
  ELSE De(CFResponse, outcome.body.j)

\* Mutant of comment_of: the comment is carried with the Display prefix.
comment_prefixed(envelope) ==
  IF envelope.comment.some
  THEN Some("Codeforces API: " \o envelope.comment.v)
  ELSE None

\* json.comment, read by the FAILED arm.
comment_of(envelope) == envelope.comment

\* Mutant of on_status: the members are looked at before the status, a
\* present result winning.
on_status_result_first(envelope) ==
  IF envelope.result.some THEN ROk(envelope.result.v)
  ELSE IF comment_of(envelope).some
  THEN RErr(CodeforcesApi(comment_of(envelope).v))
  ELSE Panicked

\* `match json.status`: Ok => Ok(json.result.unwrap()),
\* Failed => Err(Error::CodeforcesApi(json.comment.unwrap())).
on_status(envelope) ==
  IF envelope.status = "OK"
  THEN (IF envelope.result.some THEN ROk(envelope.result.v) ELSE Panicked)
  ELSE (IF comment_of(envelope).some
        THEN RErr(CodeforcesApi(comment_of(envelope).v))
        ELSE Panicked)

\* Mutant of on_parse_error: a body that does not decode is reported as a
\* transport failure (what `?` with From<reqwest::Error> would do).
on_parse_error_as_http(e) == RErr(Http(e))

\* `Err(e) => Err(Error::Parse(e))`.
on_parse_error(e) == RErr(Parse(e))

\* The match of send_codeforces_api_req on what get_url returned.
send_codeforces_api_req(outcome) ==
  IF outcome.kind = "fetch_err" THEN RErr(Http(outcome.e))
  ELSE LET r == res_json(outcome)
       IN IF r.ok THEN on_status(r.v) ELSE on_parse_error(r.e)

\* Mutant of get_url_raw: the text is checked to be JSON before it is returned.
get_url_raw_decoding(outcome) ==
  IF outcome.kind = "fetch_err" THEN RErr(Http(outcome.e))
  ELSE IF outcome.kind = "body_err" THEN RErr(Http(outcome.e))
  ELSE IF ~outcome.body.json THEN RErr(Parse("expected value"))
  ELSE ROk(outcome.body)

\* get_url_raw: the text of the body, or Error::Http.
get_url_raw(outcome) ==
  IF outcome.kind = "fetch_err" THEN RErr(Http(outcome.e))
  ELSE IF outcome.kind = "body_err" THEN RErr(Http(outcome.e))
  ELSE ROk(outcome.body)

(***************************************************************************)
(* The testcase scraper                                                    *)
(***************************************************************************)

\* A parsed page (select::document::Document): the nodes in document order,
\* each with the index of its parent (0 for a root).  An element has a name
\* and, when it carries one, the text of its class attribute; a text node
\* has its text.  The html5ever parser that builds it is outside the
\* repository.
Element(name, class, parent) ==
  [kind |-> "element", name |-> name, class |-> class, parent |-> parent]
Text(text, parent) == [kind |-> "text", text |-> text, parent |-> parent]

\* str::split_whitespace on the class attribute: `word` is the word being
\* read.
RECURSIVE split_whitespace(_, _)
split_whitespace(s, word) ==
  IF s = <<>> THEN (IF word = <<>> THEN {} ELSE {word})
  ELSE IF Head(s) \in {" ", "\n", "\t"}
  THEN (IF word = <<>> THEN {} ELSE {word}) \cup split_whitespace(Tail(s), <<>>)
  ELSE split_whitespace(Tail(s), Append(word, Head(s)))

\* select::predicate::Class(class): an element one of whose classes it is.
Class(class, document, i) ==
  /\ document[i].kind = "element"
  /\ document[i].class.some
  /\ Str(class) \in split_whitespace(document[i].class.v, <<>>)

\* select::predicate::Name(name): an element of that name.
Name(name, document, i) ==
  document[i].kind = "element" /\ document[i].name = name

\* Some node from i's parent upwards has class "input".
RECURSIVE InputAbove(_, _)
InputAbove(document, i) ==
  LET parent == document[i].parent
  IN IF parent = 0 THEN FALSE
     ELSE Class("input", document, parent) \/ InputAbove(document, parent)

\* Mutant of Descendant: every pre matches, wherever it is.
Descendant_any_pre(document, i) == Name("pre", document, i)

\* Descendant(Class("input"), Name("pre")): a pre with an ancestor of class
\* input.
Descendant(document, i) ==
  Name("pre", document, i) /\ InputAbove(document, i)

\* document.find(..): the matching nodes, in document order.
RECURSIVE find(_, _)
find(document, from) ==
  IF from > Len(document) THEN <<>>
  ELSE (IF Descendant(document, from) THEN <<from>> ELSE <<>>)
       \o find(document, from + 1)

\* The serializer's escaping of text and of attribute values.
escape_text(c) ==
  CASE c = "&" -> Str("&amp;") [] c = "<" -> Str("&lt;")
    [] c = ">" -> Str("&gt;") [] OTHER -> <<c>>
escape_attr(c) ==
  CASE c = "&" -> Str("&amp;") [] c = "\"" -> Str("&quot;") [] OTHER -> <<c>>
RECURSIVE escape(_, _)
escape(s, attr) ==
  IF s = <<>> THEN <<>>
  ELSE (IF attr THEN escape_attr(Head(s)) ELSE escape_text(Head(s)))
       \o escape(Tail(s), attr)

\* The elements that are written without content or end tag.
VoidElements == {"br", "hr", "img", "input"}

\* Node::html and Node::inner_html: the markup of a node, and of its
\* children from node `from` on.
RECURSIVE html(_, _), children_html(_, _, _)
html(document, i) ==
  LET n == document[i]
  IN IF n.kind = "text" THEN escape(n.text, FALSE)
     ELSE Str("<") \o Str(n.name)
          \o (IF n.class.some
              THEN Str(" class=\"") \o escape(n.class.v, TRUE) \o Str("\"")
              ELSE <<>>)
          \o Str(">")
          \o (IF n.name \in VoidElements THEN <<>>
              ELSE children_html(document, i, 1) \o Str("</") \o Str(n.name)
                   \o Str(">"))
children_html(document, i, from) ==
  IF from > Len(document) THEN <<>>
  ELSE (IF document[from].parent = i THEN html(document, from) ELSE <<>>)
       \o children_html(document, i, from + 1)
inner_html(document, i) == children_html(document, i, 1)

\* s begins with the literal t.
starts_with(s, t) == Len(s) >= Len(t) /\ SubSeq(s, 1, Len(t)) = Str(t)

\* Mutant of replace_all: only "<br>" is replaced.
RECURSIVE replace_all_br_only(_)
replace_all_br_only(s) ==
  IF s = <<>> THEN <<>>
  ELSE IF starts_with(s, "<br>")
  THEN Str("\n") \o replace_all_br_only(SubSeq(s, 5, Len(s)))
  ELSE <<Head(s)>> \o replace_all_br_only(Tail(s))

\* RE.replace_all(&e, "\n") with RE = (<br>|<br/>): the matches are found
\* from left to right, the first alternative first, and do not overlap.
RECURSIVE replace_all(_)
replace_all(s) ==
  IF s = <<>> THEN <<>>
  ELSE IF starts_with(s, "<br>")
  THEN Str("\n") \o replace_all(SubSeq(s, 5, Len(s)))
  ELSE IF starts_with(s, "<br/>")
  THEN Str("\n") \o replace_all(SubSeq(s, 6, Len(s)))
  ELSE <<Head(s)>> \o replace_all(Tail(s))

\* The chain find / inner_html / replace_all / collect.
collect_testcases(document) ==
  LET found == find(document, 1)
  IN [k \in 1..Len(found) |-> replace_all(inner_html(document, found[k]))]

\* What fetching the problem page can do: fail to fetch, deliver a response
\* that cannot be read as UTF-8 text, or deliver a page.
Page(document) == [kind |-> "page", document |-> document]

\* Mutant of on_testcases: the list is returned even when it is empty.
on_testcases_unchecked(testcases) == ROk(testcases)

\* `if testcases.is_empty() { Err(..) } else { Ok(testcases) }`.
on_testcases(testcases) ==
  IF testcases = <<>>
  THEN RErr(Testcases("No testcase input found for this problem."))
  ELSE ROk(testcases)

\* The url of a problem page.
problem_url(contest_id, problem_index) ==
  Str("https://codeforces.com/contest/") \o i64_to_string(contest_id)
  \o Str("/problem/") \o Str(problem_index)

\* The match of fetch_testcases_for_problem on what get_url returned;
\* Document::from_read(res).unwrap() panics when the response cannot be read.
fetch_testcases_for_problem(outcome) ==
  IF outcome.kind = "fetch_err" THEN RErr(Http(outcome.e))
  ELSE IF outcome.kind = "body_err" THEN Panicked
  ELSE on_testcases(collect_testcases(outcome.document))

\* Mutant of attach: input_testcases takes testcases.ok().
attach_ok(self, testcases) ==
  [self EXCEPT !.input_testcases =
     IF testcases.kind = "Ok" THEN Some(testcases.v) ELSE None]

\* `if let Ok(ref v) = testcases { self.input_testcases = Some(v.to_vec()) }`.
attach(self, testcases) ==
  IF testcases.kind = "Ok"
  THEN [self EXCEPT !.input_testcases = Some(testcases.v)]
  ELSE self

\* Mutant of precondition: the index is checked before the contest id.
precondition_index_first(self) ==
  IF ~self.index.some
  THEN Some(Testcases("problem.index field is required."))
  ELSE IF ~self.contest_id.some
  THEN Some(Testcases("problem.contest_id field is required."))
  ELSE None

\* The two early returns of CFProblem::fetch_testcases.
precondition(self) ==
  IF ~self.contest_id.some
  THEN Some(Testcases("problem.contest_id field is required."))
  ELSE IF ~self.index.some
  THEN Some(Testcases("problem.index field is required."))
  ELSE None

(***************************************************************************)
(* Inputs                                                                  *)
(***************************************************************************)

\* The longest handle / tag list a command carries.
MaxHandles == 2

Threads == {"t1", "t2"}

I64s == {-1, 1477}
Handles == {Str("thud"), Str("Ab")}
OptBools == {None, Some(TRUE), Some(FALSE)}
OptFrom == {None, Some(1)}
OptCount == {None, Some(30)}
OptRoom == {None, Some(-1)}
OptNames == {None} \cup {Some(h) : h \in {Str("acmsguru")}}
HandleLists == UNION {[1..n -> Handles] : n \in 0..MaxHandles}
OptHandleLists == {None} \cup {Some(v) : v \in HandleLists}

\* Every command variant, over the field values above.
AllCommands ==
  {Comments(i) : i \in I64s} \cup {View(i) : i \in I64s}
  \cup {Hacks(i) : i \in I64s} \cup {List(g) : g \in OptBools}
  \cup {RatingChanges(i) : i \in I64s}
  \cup {Standings(i, f, c, h, r, u) :
          i \in {1477}, f \in OptFrom, c \in OptCount, h \in OptHandleLists,
          r \in OptRoom, u \in OptBools}
  \cup {ContestStatus(i, h, f, c) :
          i \in I64s, h \in {None} \cup {Some(x) : x \in Handles},
          f \in OptFrom, c \in OptCount}
  \cup {Problems(t, n) : t \in OptHandleLists, n \in OptNames}
  \cup {RecentStatus(c, n) : c \in I64s, n \in OptNames}
  \cup {RecentActions(i) : i \in I64s}
  \cup {BlogEntries(h) : h \in Handles}
  \cup {Friends(b) : b \in OptBools}
  \cup {Info(v) : v \in HandleLists}
  \cup {RatedList(b) : b \in OptBools}
  \cup {Rating(h) : h \in Handles}
  \cup {UserStatus(h, f, c) : h \in Handles, f \in OptFrom, c \in OptCount}

ApiKeys == {Str("7dd1c6"), Str("Zz")}
ApiSecrets == {Str("acc9a2"), Str("&x=1")}
NonceDraws == {<<0, 0, 0, 0, 0, 0>>, <<9, 0, 3, 4, 5, 1>>}
ClockOk(secs) == [ok |-> TRUE, secs |-> secs]
ClockErr == [ok |-> FALSE]
ClockReads == {ClockOk(0), ClockOk(1614000000), ClockErr}

\* The inputs the signer is exercised over.
SignInputs ==
  [commands |-> AllCommands, keys |-> ApiKeys, secrets |-> ApiSecrets,
   draws |-> NonceDraws, clocks |-> ClockReads]

\* The inputs two callers of the signer are exercised over side by side.
SignPairInputs ==
  [commands |-> {Comments(-1), Info(<<Str("thud"), Str("Ab")>>), Friends(None)},
   keys |-> {Str("7dd1c6")}, secrets |-> ApiSecrets, draws |-> NonceDraws,
   clocks |-> ClockReads]

\* The longest list in a response payload.
MaxList == 2

\* Sample entities in the shape the API documents (responses.rs field docs).
J_Member == JObj([handle |-> JStr("thud")])
J_Party ==
  JObj([contestId |-> JInt(1477), members |-> JArr(<<J_Member>>),
        participantType |-> JStr("CONTESTANT"), ghost |-> JBool(FALSE),
        startTimeSeconds |-> JInt(1612535700)])
J_Problem ==
  JObj([contestId |-> JInt(1477), index |-> JStr("B"),
        name |-> JStr("Nezzar and Binary String"), type |-> JStr("PROGRAMMING"),
        points |-> JFloat(1000), rating |-> JInt(1900),
        tags |-> JArr(<<JStr("data structures"), JStr("greedy")>>)])
J_Comment ==
  JObj([id |-> JInt(719378), creationTimeSeconds |-> JInt(1599902488),
        commentatorHandle |-> JStr("thud"), locale |-> JStr("en"),
        text |-> JStr("<div>nice</div>"), rating |-> JInt(0)])
J_Reply ==
  JObj([id |-> JInt(719380), creationTimeSeconds |-> JInt(1599902500),
        commentatorHandle |-> JStr("Ab"), locale |-> JStr("en"),
        text |-> JStr("+1"), parentCommentId |-> JInt(719378),
        rating |-> JInt(-2)])
J_BlogEntry ==
  JObj([id |-> JInt(82347), originalLocale |-> JStr("en"),
        creationTimeSeconds |-> JInt(1599902400), authorHandle |-> JStr("thud"),
        title |-> JStr("<p>Round</p>"), locale |-> JStr("en"),
        modificationTimeSeconds |-> JInt(1599902450),
        allowViewHistory |-> JBool(TRUE), tags |-> JArr(<<JStr("div2")>>),
        rating |-> JInt(12)])
J_Hack ==
  JObj([id |-> JInt(7), creationTimeSeconds |-> JInt(1599902600),
        hacker |-> J_Party, defender |-> J_Party,
        verdict |-> JStr("HACK_SUCCESSFUL"), problem |-> J_Problem,
        test |-> JStr("1 2"),
        judgeProtocol |-> JObj([manual |-> JStr("false"),
                                protocol |-> JStr("ok"),
                                verdict |-> JStr("Successful hacking attempt")])])
J_Contest ==
  JObj([id |-> JInt(1477), name |-> JStr("Codeforces Round 698"),
        type |-> JStr("CF"), phase |-> JStr("FINISHED"), frozen |-> JBool(FALSE),
        durationSeconds |-> JInt(7200), startTimeSeconds |-> JInt(1611844500),
        relativeTimeSeconds |-> JInt(100)])
J_RatingChange ==
  JObj([contestId |-> JInt(1477), contestName |-> JStr("Codeforces Round 698"),
        handle |-> JStr("thud"), rank |-> JInt(512),
        ratingUpdateTimeSeconds |-> JInt(1611851700), oldRating |-> JInt(1500),
        newRating |-> JInt(1560)])
J_ProblemResult ==
  JObj([points |-> JInt(0), rejectedAttemptCount |-> JInt(1),
        type |-> JStr("FINAL"), bestSubmissionTimeSeconds |-> JInt(300)])
J_RanklistRow ==
  JObj([party |-> J_Party, rank |-> JInt(1), points |-> JFloat(2500),
        penalty |-> JInt(0), successfulHackCount |-> JInt(0),
        unsuccessfulHackCount |-> JInt(0),
        problemResults |-> JArr(<<J_ProblemResult>>)])
J_Submission ==
  JObj([id |-> JInt(106110889), contestId |-> JInt(1477),
        creationTimeSeconds |-> JInt(1612536000),
        relativeTimeSeconds |-> JInt(300), problem |-> J_Problem,
        author |-> J_Party, programmingLanguage |-> JStr("Rust"),
        verdict |-> JStr("OK"), testset |-> JStr("TESTS"),
        passedTestCount |-> JInt(12), timeConsumedMillis |-> JInt(31),
        memoryConsumedBytes |-> JInt(0)])
J_ProblemStatistics ==
  JObj([contestId |-> JInt(1477), index |-> JStr("B"),
        solvedCount |-> JInt(4000)])
J_RecentAction ==
  JObj([timeSeconds |-> JInt(1612536100), blogEntry |-> J_BlogEntry,
        comment |-> J_Comment])
J_User ==
  JObj([handle |-> JStr("thud"), contribution |-> JInt(0),
        rank |-> JStr("expert"), rating |-> JInt(1600),
        maxRank |-> JStr("expert"), maxRating |-> JInt(1650),
        lastOnlineTimeSeconds |-> JInt(1612536200),
        registrationTimeSeconds |-> JInt(1500000000),
        friendOfCount |-> JInt(3), avatar |-> JStr("//a.png"),
        titlePhoto |-> JStr("//t.png")])

\* The JSON arrays of at most MaxList elements of S.
ArraysOf(S) == {JArr(a) : a \in UNION {[1..n -> S] : n \in 0..MaxList}}

\* The array of n copies of x.
Repeat(x, n) == JArr([i \in 1..n |-> x])

\* The payloads a method is documented to return (apiHelp, quoted by the
\* doc comments of requests.rs), lists being of every length to MaxList.
DocPayloads(method) ==
  CASE method = "blogEntry.comments" -> ArraysOf({J_Comment, J_Reply})
    [] method = "blogEntry.view" -> {J_BlogEntry}
    [] method = "contest.hacks" -> ArraysOf({J_Hack})
    [] method = "contest.list" -> ArraysOf({J_Contest})
    [] method \in {"contest.ratingChanges", "user.rating"} ->
         ArraysOf({J_RatingChange})
    [] method = "contest.standings" ->
         {JObj([contest |-> J_Contest, problems |-> Repeat(J_Problem, n),
                rows |-> Repeat(J_RanklistRow, n)]) : n \in 0..MaxList}
    [] method \in {"contest.status", "problemset.recentStatus", "user.status"} ->
         ArraysOf({J_Submission})
    [] method = "problemset.problems" ->
         {JObj([problems |-> Repeat(J_Problem, n),
                problemStatistics |-> Repeat(J_ProblemStatistics, n)]) :
            n \in 0..MaxList}
    [] method = "recentActions" -> ArraysOf({J_RecentAction})
    [] method = "user.blogEntries" -> ArraysOf({J_BlogEntry})
    [] method = "user.friends" -> ArraysOf({JStr("thud"), JStr("Ab")})
    [] method \in {"user.info", "user.ratedList"} -> ArraysOf({J_User})

Methods ==
  {"blogEntry.comments", "blogEntry.view", "contest.hacks", "contest.list",
   "contest.ratingChanges", "contest.standings", "contest.status",
   "problemset.problems", "problemset.recentStatus", "recentActions",
   "user.blogEntries", "user.friends", "user.info", "user.ratedList",
   "user.rating", "user.status"}

\* A blog entry object that also carries a handle key (unknown to CFBlogEntry).
J_BlogEntryWithHandle ==
  JObj([key \in DOMAIN J_BlogEntry.o \cup {"handle"} |->
          IF key = "handle" THEN JStr("thud") ELSE J_BlogEntry.o[key]])

\* Payloads no method documents.
OddPayloads ==
  {JInt(5), JStr("thud"), JBool(TRUE), JObj([handle |-> JStr("thud")]), J_User,
   J_BlogEntryWithHandle,
   JArr(<<JStr("thud"), JInt(1)>>), JArr(<<JNull>>),
   JArr(<<JArr(<<JInt(1), JInt(2), JStr("thud"), JStr("en"), JStr("hi"),
                 JNull, JInt(0)>>)>>)}

Payloads == (UNION {DocPayloads(m) : m \in Methods}) \cup OddPayloads

\* An envelope object: a key is left out when its value is "absent".
Absent == [k |-> "absent"]
Envelope(status, result, comment) ==
  JObj([key \in {x \in {"status", "result", "comment"} :
                   (CASE x = "status" -> status
                      [] x = "result" -> result
                      [] x = "comment" -> comment) # Absent} |->
          CASE key = "status" -> status
            [] key = "result" -> result
            [] key = "comment" -> comment])

CommentTexts == {"blogEntryId: Blog entry with id -1 not found", " x ", ""}

\* The bodies the transport delivers.
Bodies ==
  {NotJson("<html>502</html>"), Json(JInt(1)), Json(JArr(<<>>)),
   Json(JArr(<<JStr("OK"), JArr(<<JStr("thud")>>), JNull>>)),
   Json(JArr(<<JStr("FAILED"), JNull, JStr("limit exceeded")>>)),
   Json(JObj([status |-> JStr("OK"), result |-> JArr(<<>>),
              comment |-> JNull, extra |-> JInt(1)]))}
  \cup {Json(Envelope(st, r, c)) :
          st \in {JStr("OK"), JStr("FAILED"), JStr("ok"), JInt(1), Absent},
          r \in {Absent, JNull, J_BlogEntry, JInt(5)},
          c \in {Absent, JNull, JStr("failed"), JInt(5)}}
  \cup {Json(Envelope(st, r, c)) :
          st \in {JStr("OK"), JStr("FAILED")}, r \in Payloads,
          c \in {Absent, JStr("blogEntryId: Blog entry with id -1 not found")}}
  \cup {Json(Envelope(JStr("FAILED"), Absent, JStr(c))) : c \in CommentTexts}

TransportErrors == {"connect", "timeout"}

Outcomes ==
  {FetchErr(e) : e \in TransportErrors} \cup {BodyErr("body")}
  \cup {Body(b) : b \in Bodies}

\* One command per method, for the calls that are dispatched.
DispatchCommands ==
  {Comments(-1), View(82347), Hacks(1477), List(None), RatingChanges(1477),
   Standings(1477, Some(1), Some(1), Some(<<Str("thud")>>), None, Some(FALSE)),
   ContestStatus(1477, None, Some(1), Some(30)),
   Problems(Some(<<Str("greedy")>>), None), RecentStatus(30, None),
   RecentActions(30), BlogEntries(Str("thud")), Friends(None),
   Info(<<Str("thud"), Str("Ab")>>), RatedList(Some(TRUE)),
   Rating(Str("thud")), UserStatus(Str("thud"), None, Some(3))}

\* The inputs the dispatcher is exercised over.
DispatchInputs ==
  [commands |-> DispatchCommands, keys |-> {Str("7dd1c6")},
   secrets |-> {Str("acc9a2")}, draws |-> {<<9, 0, 3, 4, 5, 1>>},
   clocks |-> {ClockOk(1614000000), ClockErr}, outcomes |-> Outcomes]

\* The problem of test_fetch_testcase, with one or both of the fields that
\* fetch_testcases needs present or missing.
TestProblem(contest_id, index) ==
  [contest_id |-> contest_id, problemset_name |-> None, index |-> index,
   name |-> "Nezzar and Binary String", problem_type |-> "PROGRAMMING",
   points |-> Some([whole |-> 1000, fraction |-> TRUE]), rating |-> Some(1900),
   tags |-> <<"data structures", "greedy">>, input_testcases |-> None]
ProblemInputs ==
  {TestProblem(c, i) : c \in {None, Some(1477)}, i \in {None, Some("B")}}

\* A problem object that carries an inputTestcases member.
J_ProblemWithTestcases ==
  JObj([key \in DOMAIN J_Problem.o \cup {"inputTestcases"} |->
          IF key = "inputTestcases" THEN JArr(<<JStr("1 2")>>)
          ELSE J_Problem.o[key]])

\* Pages: an old statement with <br> line breaks; a statement with two
\* samples, their outputs, and text that needs escaping; pages without a
\* match; a page with nested matches, several classes, and an attribute
\* that spells "<br/>".
Doc_FooBar ==
  <<Element("div", Some(Str("input")), 0), Element("pre", None, 1),
    Text(Str("foo"), 2), Element("br", None, 2), Text(Str("bar"), 2)>>
Doc_Samples ==
  <<Element("div", Some(Str("sample-test")), 0),
    Element("div", Some(Str("input")), 1),
    Element("div", Some(Str("title")), 2), Text(Str("Input"), 3),
    Element("pre", None, 2), Text(Str("1\n5 < 6 & 7\n"), 5),
    Element("div", Some(Str("output")), 1), Element("pre", None, 7),
    Text(Str("2\n"), 8),
    Element("div", Some(Str("input")), 1), Element("pre", None, 10),
    Text(Str("7\n"), 11)>>
Doc_NoInput ==
  <<Element("div", Some(Str("output")), 0), Element("pre", None, 1),
    Text(Str("2\n"), 2)>>
Doc_PreIsInput ==
  <<Element("pre", Some(Str("input")), 0), Text(Str("x"), 1)>>
Doc_Nested ==
  <<Element("div", Some(Str("sample input")), 0), Element("div", None, 1),
    Element("pre", None, 2), Text(Str("a"), 3),
    Element("span", Some(Str("<br/>")), 3), Text(Str("b<br>c"), 5),
    Element("br", None, 3), Element("pre", None, 3), Text(Str("d"), 8),
    Element("div", Some(Str("input-specification")), 0),
    Element("pre", None, 10), Text(Str("no"), 11)>>
Documents ==
  {<<>>, Doc_FooBar, Doc_Samples, Doc_NoInput, Doc_PreIsInput, Doc_Nested}

\* The inputs the scraper is exercised over, with the get calls that decode
\* problems.
ScrapeInputs ==
  [commands |-> {Problems(None, None)}, keys |-> {Str("7dd1c6")},
   secrets |-> {Str("acc9a2")}, draws |-> {<<9, 0, 3, 4, 5, 1>>},
   clocks |-> {ClockOk(1614000000)},
   outcomes |->
     {FetchErr("connect"),
      Body(Json(Envelope(JStr("OK"),
                         JObj([problems |-> JArr(<<J_Problem, J_ProblemWithTestcases>>),
                               problemStatistics |-> JArr(<<>>)]),
                         Absent))),
      Body(Json(Envelope(JStr("OK"),
                         JArr(<<JObj([J_Submission.o EXCEPT
                                       !["problem"] = J_ProblemWithTestcases])>>),
                         Absent)))},
   problems |-> ProblemInputs,
   contest_ids |-> {-1, 1477}, indexes |-> {"B"},
   pages |-> {FetchErr("connect"), BodyErr("body")}
             \cup {Page(d) : d \in Documents}]

\* The inputs calls of get and get_raw on one command are exercised over.
RepeatInputs ==
  [commands |-> {Comments(-1)}, keys |-> {Str("7dd1c6")},
   secrets |-> {Str("acc9a2")}, draws |-> NonceDraws, clocks |-> ClockReads,
   outcomes |->
     {FetchErr("connect"),
      Body(Json(Envelope(JStr("OK"), JArr(<<>>), Absent)))}]

\* The inputs two threads calling every operation are exercised over.
ConcurrentInputs ==
  [commands |-> {Comments(-1)}, keys |-> {Str("7dd1c6")},
   secrets |-> {Str("acc9a2")}, draws |-> NonceDraws,
   clocks |-> {ClockOk(1614000000), ClockErr},
   outcomes |->
     {FetchErr("connect"),
      Body(Json(Envelope(JStr("OK"), JArr(<<>>), Absent))),
      Body(Json(Envelope(JStr("OK"), Absent, Absent)))},
   problems |-> {TestProblem(None, Some("B")), TestProblem(Some(1477), Some("B"))},
   contest_ids |-> {1477}, indexes |-> {"B"},
   pages |-> {FetchErr("connect"), BodyErr("body"), Page(Doc_FooBar)}]

(***************************************************************************)
(* State                                                                   *)
(***************************************************************************)

NoArgs == [command |-> None, api_key |-> <<>>, api_secret |-> <<>>]
NoSig == [panic |-> FALSE]
NoResponse == [kind |-> "none"]
NoRet == [kind |-> "none"]

Init ==
  /\ pc = [t \in Threads |-> "idle"]
  /\ op = [t \in Threads |-> "none"]
  /\ args = [t \in Threads |-> NoArgs]
  /\ sig = [t \in Threads |-> NoSig]
  /\ fetches = [t \in Threads |-> 0]
  /\ response = [t \in Threads |-> NoResponse]
  /\ ret = [t \in Threads |-> NoRet]
  /\ problem = [t \in Threads |-> None]

\* A thread can start a call when it is not inside one and has not panicked.
CanCall(t) == pc[t] = "idle"

\* A direct call of as_codeforces_api_url by thread t.  args holds what the
\* call was given: the caller's three arguments, and what the random
\* generator and the clock returned to it.
Sign(t, I) ==
  /\ CanCall(t)
  /\ \E command \in I.commands, api_key \in I.keys, api_secret \in I.secrets,
        draws \in I.draws, now \in I.clocks :
       LET a == [command |-> command, api_key |-> api_key,
                 api_secret |-> api_secret, draws |-> draws, now |-> now]
           s == as_codeforces_api_url(command, api_key, api_secret, draws, now)
       IN /\ pc' = [pc EXCEPT ![t] = IF s.panic THEN "panicked" ELSE "done"]
          /\ op' = [op EXCEPT ![t] = "sign"]
          /\ args' = [args EXCEPT ![t] = a]
          /\ sig' = [sig EXCEPT ![t] = s]
          /\ fetches' = [fetches EXCEPT ![t] = 0]
          /\ response' = [response EXCEPT ![t] = NoResponse]
          /\ ret' = [ret EXCEPT ![t] = IF s.panic THEN Panicked ELSE ROk(s.url)]
          /\ UNCHANGED problem

\* The caller drops the value a call returned and is ready for the next call.
Drop(t) ==
  /\ pc[t] = "done"
  /\ pc' = [pc EXCEPT ![t] = "idle"]
  /\ op' = [op EXCEPT ![t] = "none"]
  /\ args' = [args EXCEPT ![t] = NoArgs]
  /\ sig' = [sig EXCEPT ![t] = NoSig]
  /\ fetches' = [fetches EXCEPT ![t] = 0]
  /\ response' = [response EXCEPT ![t] = NoResponse]
  /\ ret' = [ret EXCEPT ![t] = NoRet]
  /\ UNCHANGED problem

\* Mutant of Dispatch: a signed request is kept per command and key (a
\* process-wide cache) and used again while it is there.
Dispatch_cached(t, I, name) ==
  /\ CanCall(t)
  /\ \E command \in I.commands, api_key \in I.keys, api_secret \in I.secrets,
        draws \in I.draws, now \in I.clocks :
       LET a == [command |-> command, api_key |-> api_key,
                 api_secret |-> api_secret, draws |-> draws, now |-> now]
           kept == {u \in Threads \ {t} :
                      /\ pc[u] # "idle"
                      /\ ~sig[u].panic
                      /\ args[u].command = command
                      /\ args[u].api_key = api_key
                      /\ args[u].api_secret = api_secret}
           s == IF kept # {} THEN sig[CHOOSE u \in kept : TRUE]
                ELSE as_codeforces_api_url(command, api_key, api_secret, draws, now)
       IN /\ pc' = [pc EXCEPT ![t] = IF s.panic THEN "panicked" ELSE "fetching"]
          /\ op' = [op EXCEPT ![t] = name]
          /\ args' = [args EXCEPT ![t] = a]
          /\ sig' = [sig EXCEPT ![t] = s]
          /\ fetches' = [fetches EXCEPT ![t] = IF s.panic THEN 0 ELSE 1]
          /\ response' = [response EXCEPT ![t] = NoResponse]
          /\ ret' = [ret EXCEPT ![t] = IF s.panic THEN Panicked ELSE NoRet]
          /\ UNCHANGED problem

\* The first half of a dispatching call (get or get_raw): the signed url is
\* built and the request is handed to the transport, or the signer panics.
Dispatch(t, I, name) ==
  /\ CanCall(t)
  /\ \E command \in I.commands, api_key \in I.keys, api_secret \in I.secrets,
        draws \in I.draws, now \in I.clocks :
       LET a == [command |-> command, api_key |-> api_key,
                 api_secret |-> api_secret, draws |-> draws, now |-> now]
           s == as_codeforces_api_url(command, api_key, api_secret, draws, now)
       IN /\ pc' = [pc EXCEPT ![t] = IF s.panic THEN "panicked" ELSE "fetching"]
          /\ op' = [op EXCEPT ![t] = name]
          /\ args' = [args EXCEPT ![t] = a]
          /\ sig' = [sig EXCEPT ![t] = s]
          /\ fetches' = [fetches EXCEPT ![t] = IF s.panic THEN 0 ELSE 1]
          /\ response' = [response EXCEPT ![t] = NoResponse]
          /\ ret' = [ret EXCEPT ![t] = IF s.panic THEN Panicked ELSE NoRet]
          /\ UNCHANGED problem

\* Mutant of Finish: a failed fetch is tried once more before it is reported.
Finish_retrying(t, outcome, result) ==
  IF outcome.kind = "fetch_err" /\ fetches[t] < 2
  THEN /\ fetches' = [fetches EXCEPT ![t] = @ + 1]
       /\ UNCHANGED <<pc, op, args, sig, response, ret>>
  ELSE /\ pc' = [pc EXCEPT ![t] =
                   IF result.kind = "panic" THEN "panicked" ELSE "done"]
       /\ response' = [response EXCEPT ![t] = outcome]
       /\ ret' = [ret EXCEPT ![t] = result]
       /\ UNCHANGED <<op, args, sig, fetches>>

\* Mutant of Finish: the answer is kept in one place that every thread
\* reads (a static buffer).
Finish_shared_response(t, outcome, result) ==
  /\ pc' = [pc EXCEPT ![t] = IF result.kind = "panic" THEN "panicked" ELSE "done"]
  /\ response' = [u \in Threads |-> outcome]
  /\ ret' = [ret EXCEPT ![t] = result]
  /\ UNCHANGED <<op, args, sig, fetches>>

\* The second half: the transport answers and the call returns `result`.
Finish(t, outcome, result) ==
  /\ pc' = [pc EXCEPT ![t] = IF result.kind = "panic" THEN "panicked" ELSE "done"]
  /\ response' = [response EXCEPT ![t] = outcome]
  /\ ret' = [ret EXCEPT ![t] = result]
  /\ UNCHANGED <<op, args, sig, fetches>>

\* CFAPIRequestable::get = send_codeforces_api_req.
GetCall(t, I) == Dispatch(t, I, "get")

GetReturn(t, I) ==
  /\ pc[t] = "fetching"
  /\ op[t] = "get"
  /\ \E outcome \in I.outcomes :
       Finish(t, outcome, send_codeforces_api_req(outcome))
  /\ UNCHANGED problem

\* CFAPIRequestable::get_raw = send_codeforces_api_req_raw.
GetRawCall(t, I) == Dispatch(t, I, "get_raw")

GetRawReturn(t, I) ==
  /\ pc[t] = "fetching"
  /\ op[t] = "get_raw"
  /\ \E outcome \in I.outcomes : Finish(t, outcome, get_url_raw(outcome))
  /\ UNCHANGED problem

\* The caller builds a CFProblem (its fields are public), as
\* test_fetch_testcase does.
NewProblem(t, I) ==
  /\ CanCall(t)
  /\ \E p \in I.problems : problem' = [problem EXCEPT ![t] = Some(p)]
  /\ UNCHANGED <<pc, op, args, sig, fetches, response, ret>>

\* The problems a decoded CFResult holds.
ProblemsOf(result) ==
  CASE result.variant \in {"CFProblemset", "CFContestStandings"} ->
         {result.v.problems[i] : i \in 1..Len(result.v.problems)}
    [] result.variant \in {"CFSubmissionVec", "CFHackVec"} ->
         {result.v[i].problem : i \in 1..Len(result.v)}
    [] OTHER -> {}

\* The caller keeps a problem out of the result get returned.
TakeProblem(t) ==
  /\ pc[t] = "done"
  /\ op[t] = "get"
  /\ ret[t].kind = "Ok"
  /\ \E p \in ProblemsOf(ret[t].v) : problem' = [problem EXCEPT ![t] = Some(p)]
  /\ UNCHANGED <<pc, op, args, sig, fetches, response, ret>>

\* The request for the problem page is handed to the transport.
FetchPage(t, name, contest_id, problem_index) ==
  /\ pc' = [pc EXCEPT ![t] = "fetching"]
  /\ op' = [op EXCEPT ![t] = name]
  /\ args' = [args EXCEPT ![t] =
               [contest_id |-> contest_id, problem_index |-> problem_index,
                url |-> problem_url(contest_id, problem_index)]]
  /\ sig' = [sig EXCEPT ![t] = NoSig]
  /\ fetches' = [fetches EXCEPT ![t] = 1]
  /\ response' = [response EXCEPT ![t] = NoResponse]
  /\ ret' = [ret EXCEPT ![t] = NoRet]

\* A direct call of fetch_testcases_for_problem.
FetchForProblemCall(t, I) ==
  /\ CanCall(t)
  /\ \E contest_id \in I.contest_ids, problem_index \in I.indexes :
       FetchPage(t, "fetch_testcases_for_problem", contest_id, problem_index)
  /\ UNCHANGED problem

FetchForProblemReturn(t, I) ==
  /\ pc[t] = "fetching"
  /\ op[t] = "fetch_testcases_for_problem"
  /\ \E outcome \in I.pages :
       Finish(t, outcome, fetch_testcases_for_problem(outcome))
  /\ UNCHANGED problem

\* CFProblem::fetch_testcases on the thread's problem: an early return, or
\* the call of fetch_testcases_for_problem.
FetchTestcasesCall(t) ==
  /\ CanCall(t)
  /\ problem[t].some
  /\ LET early == precondition(problem[t].v)
     IN IF early.some
        THEN /\ pc' = [pc EXCEPT ![t] = "done"]
             /\ op' = [op EXCEPT ![t] = "fetch_testcases"]
             /\ args' = [args EXCEPT ![t] = NoArgs]
             /\ sig' = [sig EXCEPT ![t] = NoSig]
             /\ fetches' = [fetches EXCEPT ![t] = 0]
             /\ response' = [response EXCEPT ![t] = NoResponse]
             /\ ret' = [ret EXCEPT ![t] = RErr(early.v)]
        ELSE FetchPage(t, "fetch_testcases", problem[t].v.contest_id.v,
                       problem[t].v.index.v)
  /\ UNCHANGED problem

FetchTestcasesReturn(t, I) ==
  /\ pc[t] = "fetching"
  /\ op[t] = "fetch_testcases"
  /\ \E outcome \in I.pages :
       LET testcases == fetch_testcases_for_problem(outcome)
       IN /\ Finish(t, outcome, testcases)
          /\ problem' = [problem EXCEPT ![t] =
                           IF testcases.kind = "panic" THEN problem[t]
                           ELSE Some(attach(problem[t].v, testcases))]

Next ==
  \/ GetCall("t1", DispatchInputs)
  \/ GetReturn("t1", DispatchInputs)
  \/ GetRawCall("t1", DispatchInputs)
  \/ GetRawReturn("t1", DispatchInputs)
  \/ Drop("t1")

Spec == Init /\ [][Next]_vars

NextSign == Sign("t1", SignInputs) \/ Drop("t1")

SpecSign == Init /\ [][NextSign]_vars

\* Two threads calling the signer, in any interleaving.
NextSignPair == \E t \in Threads : Sign(t, SignPairInputs) \/ Drop(t)

SpecSignPair == Init /\ [][NextSignPair]_vars

NextScrape ==
  \/ NewProblem("t1", ScrapeInputs)
  \/ GetCall("t1", ScrapeInputs)
  \/ GetReturn("t1", ScrapeInputs)
  \/ TakeProblem("t1")
  \/ FetchForProblemCall("t1", ScrapeInputs)
  \/ FetchForProblemReturn("t1", ScrapeInputs)
  \/ FetchTestcasesCall("t1")
  \/ FetchTestcasesReturn("t1", ScrapeInputs)
  \/ Drop("t1")

SpecScrape == Init /\ [][NextScrape]_vars

\* Two threads calling every operation, in any interleaving; each thread
\* has a CFProblem of its own.
NextConcurrent ==
  \E t \in Threads :
    \/ GetCall(t, ConcurrentInputs)
    \/ GetReturn(t, ConcurrentInputs)
    \/ GetRawCall(t, ConcurrentInputs)
    \/ GetRawReturn(t, ConcurrentInputs)
    \/ NewProblem(t, ConcurrentInputs)
    \/ FetchForProblemCall(t, ConcurrentInputs)
    \/ FetchForProblemReturn(t, ConcurrentInputs)
    \/ FetchTestcasesCall(t)
    \/ FetchTestcasesReturn(t, ConcurrentInputs)
    \/ Drop(t)

SpecConcurrent == Init /\ [][NextConcurrent]_vars

\* Calls of get and get_raw on one command, one after another and side by
\* side.
NextRepeat ==
  \E t \in Threads :
    \/ GetCall(t, RepeatInputs)
    \/ GetReturn(t, RepeatInputs)
    \/ GetRawCall(t, RepeatInputs)
    \/ GetRawReturn(t, RepeatInputs)
    \/ Drop(t)

SpecRepeat == Init /\ [][NextRepeat]_vars

(***************************************************************************)
(* Properties of the signer                                                *)
(***************************************************************************)

\* Thread t holds the locals of a completed as_codeforces_api_url.
Signed(t) == op[t] # "none" /\ pc[t] # "idle" /\ ~sig[t].panic

\* a < b in byte-wise lexicographic order.
ByteLexLess(a, b) ==
  \E i \in 1..(Len(a) + 1) :
    /\ i <= Len(b)
    /\ \A j \in 1..(i - 1) : a[j] = b[j]
    /\ (i = Len(a) + 1 \/ ByteOf(a[i]) < ByteOf(b[i]))

\* p <= q: by key, ties broken by value.
PairLeq(p, q) ==
  \/ ByteLexLess(p[1], q[1])
  \/ p[1] = q[1] /\ (p[2] = q[2] \/ ByteLexLess(p[2], q[2]))

\* "k=v&" for every pair, in order.
RECURSIVE RenderPairs(_)
RenderPairs(P) ==
  IF P = <<>> THEN <<>>
  ELSE Head(P)[1] \o <<"=">> \o Head(P)[2] \o <<"&">> \o RenderPairs(Tail(P))

\* "k=v" for every pair, joined by '&'.
RECURSIVE JoinPairs(_)
JoinPairs(P) ==
  IF P = <<>> THEN <<>>
  ELSE IF Len(P) = 1 THEN Head(P)[1] \o <<"=">> \o Head(P)[2]
  ELSE Head(P)[1] \o <<"=">> \o Head(P)[2] \o <<"&">> \o JoinPairs(Tail(P))

\* How many times pair p occurs in P.
Occurrences(p, P) == Cardinality({i \in 1..Len(P) : P[i] = p})

\* P and Q hold the same pairs, each as many times.
SamePairs(P, Q) ==
  /\ Len(P) = Len(Q)
  /\ \A i \in 1..Len(P) : Occurrences(P[i], P) = Occurrences(P[i], Q)

\* The command's parameters plus apiKey and time, in push order.
PushedParams(t) ==
  query_params(args[t].command)
  \o <<<<Str("apiKey"), args[t].api_key>>,
       <<Str("time"), u64_to_string(sig[t].ctime)>>>>

\* The length of "apiSig=" and of the signature after it.
SigKeyLen == Len("apiSig=")
SignatureLen == NonceLen + 2 * DigestLen

\* The url's text after "<method>?" and before "apiSig=".
UrlQuery(t) ==
  LET u == sig[t].url
      h == Len(API_STUB) + Len(method_name_of(args[t].command)) + 1
  IN SubSeq(u, h + 1, Len(u) - SignatureLen - SigKeyLen)

\* The url's last SignatureLen characters: the value of apiSig.
UrlSignature(t) ==
  LET u == sig[t].url IN SubSeq(u, Len(u) - SignatureLen + 1, Len(u))

\* C2: the key=value pairs written between "<method>?" and "apiSig=" are the
\* command's parameters plus apiKey and time, in non-decreasing byte-wise
\* order of key, ties broken by byte-wise order of value.
C2_PairsSorted ==
  \A t \in Threads :
    Signed(t) =>
      LET P == sig[t].params
      IN /\ UrlQuery(t) = RenderPairs(P)
         /\ SamePairs(P, PushedParams(t))
         /\ \A i \in 1..(Len(P) - 1) : PairLeq(P[i], P[i + 1])

\* C2 witness: a signed call whose sort moved a pair (the push order was
\* not the sorted order) and whose keys include an upper-case byte.
C2_Witness ==
  \E t \in Threads :
    /\ Signed(t)
    /\ sig[t].params # PushedParams(t)
    /\ Len(sig[t].params) >= 5
    /\ \E i \in 1..Len(sig[t].params) : sig[t].params[i][1] = Str("showUnofficial")

\* C3: the hashed string is "<nonce>/<method>?", then key=value for every
\* pair of the sorted set joined by '&', then "#<api_secret>"; the pairs and
\* their order are those written into the url.
C3_SigningBuffer ==
  \A t \in Threads :
    Signed(t) =>
      LET P == sig[t].params
      IN /\ sig[t].to_hash =
              sig[t].rand \o <<"/">> \o Str(method_name_of(args[t].command))
              \o <<"?">> \o JoinPairs(P) \o <<"#">> \o args[t].api_secret
         /\ UrlQuery(t) = RenderPairs(P)

\* C3 witness: a signed call with at least four pairs and a secret that
\* itself holds a separator.
C3_Witness ==
  \E t \in Threads :
    /\ Signed(t)
    /\ Len(sig[t].params) >= 4
    /\ args[t].api_secret = Str("&x=1")

\* C4: the url is the API stub, the method name, '?', "key=value&" for every
\* pair of the sorted set, "apiSig=" and the signature, and nothing else.
C4_UrlExact ==
  \A t \in Threads :
    Signed(t) =>
      sig[t].url =
        Str("https://codeforces.com/api/")
        \o Str(method_name_of(args[t].command)) \o <<"?">>
        \o RenderPairs(sig[t].params)
        \o Str("apiSig=") \o UrlSignature(t)

\* C4 witness: a signed contest.standings call with all six parameters.
C4_Witness ==
  \E t \in Threads :
    /\ Signed(t)
    /\ method_name_of(args[t].command) = "contest.standings"
    /\ Len(sig[t].params) = 8

\* The value of a hex digit.
HexValue(c) == (CHOOSE i \in 1..16 : HexChars[i] = c) - 1

\* C5: the apiSig value is the nonce followed by the hex encoding of the
\* digest of the signing buffer; the nonce is six decimal digits and is the
\* string that begins the signing buffer.
C5_Signature ==
  \A t \in Threads :
    Signed(t) =>
      LET v == UrlSignature(t)
          n == SubSeq(v, 1, NonceLen)
          x == SubSeq(v, NonceLen + 1, Len(v))
          d == Sha512(sig[t].to_hash)
      IN /\ Len(sig[t].url) >= SignatureLen + SigKeyLen
         /\ SubSeq(sig[t].url, Len(sig[t].url) - SignatureLen - SigKeyLen + 1,
                   Len(sig[t].url) - SignatureLen) = Str("apiSig=")
         /\ Len(n) = 6
         /\ \A i \in 1..Len(n) : n[i] \in {DigitChars[k] : k \in 1..10}
         /\ n = sig[t].rand
         /\ SubSeq(sig[t].to_hash, 1, NonceLen + 1) = n \o <<"/">>
         /\ Len(x) = 2 * Len(d)
         /\ \A i \in 1..Len(d) :
              /\ x[2 * i - 1] \in {HexChars[k] : k \in 1..16}
              /\ x[2 * i] \in {HexChars[k] : k \in 1..16}
              /\ 16 * HexValue(x[2 * i - 1]) + HexValue(x[2 * i]) = d[i]

\* C5 witness: a signed call whose nonce is not all zeros and whose digest
\* has a byte with two different nibbles.
C5_Witness ==
  \E t \in Threads :
    /\ Signed(t)
    /\ sig[t].rand = Str("903451")
    /\ \E i \in 1..DigestLen :
         sig[t].api_sig[i] \div 16 # sig[t].api_sig[i] % 16

(***************************************************************************)
(* Properties of the dispatcher and the resolver                           *)
(***************************************************************************)

\* Thread t's call of get has had its answer from the transport.
GetAnswered(t) == op[t] = "get" /\ response[t].kind # "none"

\* Thread t's call of get was answered with a body that is JSON.
GetAnsweredJson(t) ==
  GetAnswered(t) /\ response[t].kind = "body" /\ response[t].body.json

\* The member `key` of an envelope as it is on the wire: by name in an
\* object, by position in an array; Absent when it is not there.
EnvelopePlace(key) ==
  CASE key = "status" -> 1 [] key = "result" -> 2 [] key = "comment" -> 3
WireMember(j, key) ==
  IF j.k = "obj" THEN (IF key \in DOMAIN j.o THEN j.o[key] ELSE Absent)
  ELSE IF j.k = "arr" /\ EnvelopePlace(key) <= Len(j.a)
  THEN j.a[EnvelopePlace(key)]
  ELSE Absent

\* The body decodes as an envelope.
DecodesAsEnvelope(j) == De(CFResponse, j).ok

\* C1: a body that decodes as an envelope with status FAILED and a comment
\* string c makes get return Err(Error::CodeforcesApi(c)), c being the
\* string on the wire, unchanged; get does not return Ok.
C1_FailedComment ==
  \A t \in Threads :
    (/\ GetAnsweredJson(t)
     /\ DecodesAsEnvelope(response[t].body.j)
     /\ WireMember(response[t].body.j, "status") = JStr("FAILED")
     /\ WireMember(response[t].body.j, "comment").k = "str")
    => /\ ret[t] =
            RErr(CodeforcesApi(WireMember(response[t].body.j, "comment").s))
       /\ ret[t].kind # "Ok"

\* C1 witness: Comments{blog_entry_id: -1} answered by a FAILED envelope
\* whose comment has leading and trailing blanks, returned as it is.
C1_Witness ==
  \E t \in Threads :
    /\ GetAnsweredJson(t)
    /\ args[t].command = Comments(-1)
    /\ response[t].body.j = Envelope(JStr("FAILED"), Absent, JStr(" x "))
    /\ ret[t] = RErr(CodeforcesApi(" x "))

\* C7: whatever the transport does and whatever the body is, get returns Ok
\* or a typed Error and does not panic.
C7_NeverPanics ==
  \A t \in Threads : GetAnswered(t) => ret[t].kind \in {"Ok", "Err"}

\* The three ways the claim names for a body not to decode as an envelope.
NotJsonBody(b) == ~b.json
BadStatus(b) ==
  /\ b.json
  /\ WireMember(b.j, "status") # Absent
  /\ WireMember(b.j, "status") \notin {JStr("OK"), JStr("FAILED")}
UnmatchedResult(b) ==
  /\ b.json
  /\ WireMember(b.j, "result") \notin {Absent, JNull}
  /\ ~De(CFResult, WireMember(b.j, "result")).ok

\* C8: a failed fetch makes get return Error::Http wrapping the transport's
\* error; a body that does not decode as an envelope (not JSON, a status
\* other than "OK"/"FAILED", a present result that matches no CFResult
\* shape, or any other decoding failure) makes it return Error::Parse
\* wrapping the decoder's error.
C8_ErrorRouting ==
  \A t \in Threads :
    GetAnswered(t) =>
      /\ response[t].kind = "fetch_err" => ret[t] = RErr(Http(response[t].e))
      /\ (response[t].kind = "body" /\
            (\/ NotJsonBody(response[t].body)
             \/ BadStatus(response[t].body)
             \/ UnmatchedResult(response[t].body)))
         => ret[t].kind = "Err" /\ ret[t].error.variant = "Parse"
      /\ (GetAnsweredJson(t) /\ ~DecodesAsEnvelope(response[t].body.j))
         => ret[t] = RErr(Parse(De(CFResponse, response[t].body.j).e))

\* C8 witness: get answered by an OK envelope whose result is a number,
\* which matches no CFResult shape, and returning Error::Parse.
C8_Witness ==
  \E t \in Threads :
    /\ GetAnsweredJson(t)
    /\ response[t].body.j = Envelope(JStr("OK"), JInt(5), Absent)
    /\ UnmatchedResult(response[t].body)
    /\ ret[t].kind = "Err"
    /\ ret[t].error.variant = "Parse"

\* The CFResult variant the documentation of a command names.
DocVariant(method) ==
  CASE method = "blogEntry.comments" -> "CFCommentVec"
    [] method = "blogEntry.view" -> "CFBlogEntry"
    [] method = "contest.hacks" -> "CFHackVec"
    [] method = "contest.list" -> "CFContestVec"
    [] method \in {"contest.ratingChanges", "user.rating"} -> "CFRatingChangeVec"
    [] method = "contest.standings" -> "CFContestStandings"
    [] method \in {"contest.status", "problemset.recentStatus", "user.status"} ->
         "CFSubmissionVec"
    [] method = "problemset.problems" -> "CFProblemset"
    [] method = "recentActions" -> "CFRecentActionVec"
    [] method = "user.blogEntries" -> "CFBlogEntryVec"
    [] method = "user.friends" -> "CFFriends"
    [] method \in {"user.info", "user.ratedList"} -> "CFUserVec"

\* C9: when get returns Ok(r) for a payload of the command's documented
\* shape (lists of any length), r is the variant the command's
\* documentation names.
C9_DocumentedVariant ==
  \A t \in Threads :
    (/\ GetAnsweredJson(t)
     /\ ret[t].kind = "Ok"
     /\ WireMember(response[t].body.j, "result")
          \in DocPayloads(method_name_of(args[t].command)))
    => ret[t].v.variant = DocVariant(method_name_of(args[t].command))

\* The array's elements are all bare strings.
AllStrings(j) == j.k = "arr" /\ \A i \in 1..Len(j.a) : j.a[i].k = "str"

\* C10: a success envelope whose result is an array of bare strings makes
\* get return CFResult::CFFriends carrying those strings in their order.
C10_FriendsShape ==
  \A t \in Threads :
    (/\ GetAnsweredJson(t)
     /\ WireMember(response[t].body.j, "status") = JStr("OK")
     /\ WireMember(response[t].body.j, "comment").k \in {"absent", "null", "str"}
     /\ AllStrings(WireMember(response[t].body.j, "result")))
    => LET a == WireMember(response[t].body.j, "result").a
       IN ret[t] = ROk([variant |-> "CFFriends",
                        v |-> [i \in 1..Len(a) |-> a[i].s]])

\* The variants of CFResult that hold one entity, and those that hold a list.
SingleVariants == {"CFBlogEntry", "CFContestStandings", "CFProblemset"}
ListVariants ==
  {"CFCommentVec", "CFHackVec", "CFContestVec", "CFRatingChangeVec",
   "CFSubmissionVec", "CFRecentActionVec", "CFBlogEntryVec", "CFFriends",
   "CFUserVec"}

\* Thread t's get was answered by a success envelope whose result is a
\* single JSON object with a handle member.
AnsweredObjectWithHandle(t) ==
  /\ GetAnsweredJson(t)
  /\ WireMember(response[t].body.j, "status") = JStr("OK")
  /\ WireMember(response[t].body.j, "comment").k \in {"absent", "null", "str"}
  /\ WireMember(response[t].body.j, "result").k = "obj"
  /\ "handle" \in DOMAIN WireMember(response[t].body.j, "result").o

\* C11 as stated: a success envelope whose result is a single object with a
\* handle member makes get return Ok with a single-entity variant.
C11_SingleEntity ==
  \A t \in Threads :
    AnsweredObjectWithHandle(t) =>
      ret[t].kind = "Ok" /\ ret[t].v.variant \in SingleVariants

\* C11 as amended: such an envelope never resolves to a list variant; when
\* the object has none of the members id, contest and problems (which
\* CFBlogEntry, CFContestStandings and CFProblemset require) it matches no
\* variant and get returns Error::Parse; when get returns Ok the variant is a
\* single-entity one.
C11_SingleObject ==
  \A t \in Threads :
    AnsweredObjectWithHandle(t) =>
      LET o == WireMember(response[t].body.j, "result").o
      IN /\ ~(ret[t].kind = "Ok" /\ ret[t].v.variant \in ListVariants)
         /\ ret[t].kind = "Ok" => ret[t].v.variant \in SingleVariants
         /\ DOMAIN o \cap {"id", "contest", "problems"} = {}
            => ret[t] =
                 RErr(Parse("data did not match any variant of untagged enum"))

\* C11 witness: get answered by a success envelope whose result is one user
\* object, returning Error::Parse.
C11_Witness ==
  \E t \in Threads :
    /\ AnsweredObjectWithHandle(t)
    /\ WireMember(response[t].body.j, "result") = J_User
    /\ ret[t].kind = "Err"
    /\ ret[t].error.variant = "Parse"

\* Thread t's call of get_raw has had its answer from the transport.
GetRawAnswered(t) == op[t] = "get_raw" /\ response[t].kind # "none"

\* C12: get_raw returns Ok(body text) unchanged whenever the fetch and the
\* body read succeed, whatever the body is; otherwise it returns Error::Http
\* wrapping the transport's error; it returns no other error.
C12_RawBody ==
  \A t \in Threads :
    GetRawAnswered(t) =>
      /\ response[t].kind = "body" => ret[t] = ROk(response[t].body)
      /\ response[t].kind # "body" => ret[t] = RErr(Http(response[t].e))
      /\ ret[t].kind \in {"Ok", "Err"}
      /\ ret[t].kind = "Err" => ret[t].error.variant = "Http"

\* C12 witness: get_raw answered by text that is not JSON, returned as it is.
C12_Witness ==
  \E t \in Threads :
    /\ GetRawAnswered(t)
    /\ response[t] = Body(NotJson("<html>502</html>"))
    /\ ret[t] = ROk(NotJson("<html>502</html>"))

(***************************************************************************)
(* Properties of the scraper                                               *)
(***************************************************************************)

\* Thread t's scraping call has had a page from the transport.
PageAnswered(t) ==
  /\ op[t] \in {"fetch_testcases_for_problem", "fetch_testcases"}
  /\ response[t].kind = "page"

\* The nodes above node i.
RECURSIVE AncestorsOf(_, _)
AncestorsOf(document, i) ==
  IF document[i].parent = 0 THEN {}
  ELSE {document[i].parent} \cup AncestorsOf(document, document[i].parent)

\* The node is an element whose class attribute has `input` as one of its
\* blank-separated words.
HasInputClass(node) ==
  /\ node.kind = "element"
  /\ node.class.some
  /\ LET c == node.class.v
         w == Str("input")
     IN \E a \in 1..Len(c) :
          /\ a + Len(w) - 1 <= Len(c)
          /\ SubSeq(c, a, a + Len(w) - 1) = w
          /\ (a = 1 \/ c[a - 1] = " ")
          /\ (a + Len(w) - 1 = Len(c) \/ c[a + Len(w)] = " ")

\* The pre elements below an element of class input.
InputPres(document) ==
  {i \in 1..Len(document) :
     /\ document[i].kind = "element"
     /\ document[i].name = "pre"
     /\ \E j \in AncestorsOf(document, i) : HasInputClass(document[j])}

\* C13: the scraper never returns Ok with an empty list; a page without a
\* pre below an element of class input makes it return Error::Testcases
\* with the fixed message, which is neither Http nor Parse.
C13_NoEmptyList ==
  \A t \in Threads :
    /\ (op[t] \in {"fetch_testcases_for_problem", "fetch_testcases"}
        /\ ret[t].kind = "Ok") => ret[t].v # <<>>
    /\ (PageAnswered(t) /\ InputPres(response[t].document) = {})
       => /\ ret[t] =
               RErr(Testcases("No testcase input found for this problem."))
          /\ ret[t].error.variant \notin {"Http", "Parse"}

\* C13 witness: the scraper answered by a page whose only pre has class
\* input itself, but no ancestor with it.
C13_Witness ==
  \E t \in Threads :
    /\ PageAnswered(t)
    /\ op[t] = "fetch_testcases_for_problem"
    /\ response[t].document = Doc_PreIsInput
    /\ ret[t].kind = "Err"

\* The k-th pre below an element of class input, in document order.
KthInputPre(document, k) ==
  CHOOSE i \in InputPres(document) :
    Cardinality({j \in InputPres(document) : j < i}) = k - 1

\* The length of the line-break tag that begins at position q of m (0 when
\* none does).
BreakAt(m, q) ==
  IF q + 3 <= Len(m) /\ SubSeq(m, q, q + 3) = Str("<br>") THEN 4
  ELSE IF q + 4 <= Len(m) /\ SubSeq(m, q, q + 4) = Str("<br/>") THEN 5
  ELSE 0

\* Position q of m lies inside a line-break tag, after its first character.
InsideBreak(m, q) ==
  \E b \in 1..(q - 1) : BreakAt(m, b) > 0 /\ q < b + BreakAt(m, b)

\* How many characters the tags that begin before position q lose.
Shrink(m, q) ==
  Cardinality({bd \in (1..(q - 1)) \X (1..4) :
                 BreakAt(m, bd[1]) > 0 /\ bd[2] < BreakAt(m, bd[1])})

\* r is m with every "<br>" and every "<br/>" replaced by one newline and
\* nothing else changed.
BreaksReplaced(m, r) ==
  /\ Len(r) = Len(m) - Shrink(m, Len(m) + 1)
  /\ \A q \in 1..Len(m) :
       ~InsideBreak(m, q) =>
         r[q - Shrink(m, q)] = (IF BreakAt(m, q) > 0 THEN "\n" ELSE m[q])

\* C14: each test case the scraper returns is the inner markup of its
\* element with every "<br>" and "<br/>" replaced by one newline and
\* nothing else changed; inner markup foo<br>bar yields foo, newline, bar.
C14_BreaksToNewlines ==
  \A t \in Threads :
    (PageAnswered(t) /\ ret[t].kind = "Ok") =>
      LET document == response[t].document
      IN /\ \A k \in 1..Len(ret[t].v) :
              /\ k <= Cardinality(InputPres(document))
              /\ BreaksReplaced(inner_html(document, KthInputPre(document, k)),
                                ret[t].v[k])
         /\ document = Doc_FooBar => ret[t].v = <<Str("foo\nbar")>>

\* C14 witness: the scraper answered by the page whose pre holds
\* foo<br>bar, returning foo, newline, bar.
C14_Witness ==
  \E t \in Threads :
    /\ PageAnswered(t)
    /\ response[t].document = Doc_FooBar
    /\ inner_html(Doc_FooBar, 2) = Str("foo<br>bar")
    /\ ret[t] = ROk(<<Str("foo\nbar")>>)

\* C15: on success the list has one string per pre below an element of
\* class input, in document order, and no other string.
C15_OnePerInputPre ==
  \A t \in Threads :
    (PageAnswered(t) /\ ret[t].kind = "Ok") =>
      LET document == response[t].document
      IN /\ Len(ret[t].v) = Cardinality(InputPres(document))
         /\ \A k \in 1..Len(ret[t].v) :
              ret[t].v[k] =
                replace_all(inner_html(document, KthInputPre(document, k)))

\* C15 witness: a page with three pre elements, two of them below an
\* element of class input, the third below one of class output.
C15_Witness ==
  \E t \in Threads :
    /\ PageAnswered(t)
    /\ response[t].document = Doc_Samples
    /\ Cardinality({i \in 1..Len(Doc_Samples) :
                      Doc_Samples[i].kind = "element"
                      /\ Doc_Samples[i].name = "pre"}) = 3
    /\ ret[t].kind = "Ok"
    /\ Len(ret[t].v) = 2

\* Thread t is in, or has returned from, fetch_testcases on a problem that
\* lacks its contest_id or its index.
FetchOnIncomplete(t) ==
  /\ op[t] = "fetch_testcases"
  /\ problem[t].some
  /\ (~problem[t].v.contest_id.some \/ ~problem[t].v.index.some)

\* C16: fetch_testcases on a problem whose contest_id or index is None
\* returns Error::Testcases with no fetch issued; contest_id is checked
\* first, so its message is the one returned when both are missing.
C16_PreconditionFirst ==
  \A t \in Threads :
    FetchOnIncomplete(t) =>
      /\ pc[t] = "done"
      /\ fetches[t] = 0
      /\ response[t] = NoResponse
      /\ ret[t] =
           RErr(Testcases(IF problem[t].v.contest_id = None
                          THEN "problem.contest_id field is required."
                          ELSE "problem.index field is required."))

\* C16 witness: fetch_testcases returned on a problem that lacks both.
C16_Witness ==
  \E t \in Threads :
    /\ FetchOnIncomplete(t)
    /\ problem[t].v.contest_id = None
    /\ problem[t].v.index = None
    /\ ret[t] = RErr(Testcases("problem.contest_id field is required."))

\* The call of fetch_testcases by thread t returns in this step.
FetchTestcasesReturns(t) ==
  /\ op'[t] = "fetch_testcases"
  /\ ret[t].kind = "none"
  /\ ret'[t].kind \in {"Ok", "Err"}

\* C17: when fetch_testcases returns Ok(v) the problem's input_testcases is
\* Some(v) and its other fields are unchanged; when it returns Err every
\* field of the problem is unchanged, an input_testcases attached by an
\* earlier call included.
C17_Frame ==
  [][\A t \in Threads :
       FetchTestcasesReturns(t) =>
         /\ problem[t].some
         /\ problem'[t] =
              IF ret'[t].kind = "Ok"
              THEN Some([problem[t].v EXCEPT
                           !.input_testcases = Some(ret'[t].v)])
              ELSE problem[t]]_vars

\* C17 witness: fetch_testcases returned an error on a problem that keeps
\* the testcases an earlier call attached.
C17_Witness ==
  \E t \in Threads :
    /\ op[t] = "fetch_testcases"
    /\ ret[t].kind = "Err"
    /\ problem[t].some
    /\ problem[t].v.input_testcases.some

\* Thread t's get returned a result decoded from a payload with a problem
\* object that carries an inputTestcases member.
DecodedFromTestcasesMember(t) ==
  /\ GetAnsweredJson(t)
  /\ ret[t].kind = "Ok"
  /\ LET r == WireMember(response[t].body.j, "result")
     IN \/ /\ r.k = "obj"
           /\ \E i \in 1..Len(r.o.problems.a) :
                "inputTestcases" \in DOMAIN r.o.problems.a[i].o
        \/ /\ r.k = "arr"
           /\ \E i \in 1..Len(r.a) :
                "inputTestcases" \in DOMAIN r.a[i].o.problem.o

\* C18: every CFProblem decoded from a response has input_testcases = None,
\* also when the JSON object has an inputTestcases member; a problem's
\* input_testcases becomes Some only in a step in which fetch_testcases
\* returns Ok, and then holds the returned list.
C18_TestcasesOnlyFetched ==
  [][\A t \in Threads :
       /\ (op'[t] = "get" /\ ret'[t].kind = "Ok") =>
            \A p \in ProblemsOf(ret'[t].v) : p.input_testcases = None
       /\ (problem'[t] # problem[t] /\ problem'[t].some
           /\ problem'[t].v.input_testcases.some) =>
            /\ op'[t] = "fetch_testcases"
            /\ ret[t].kind = "none"
            /\ ret'[t] = ROk(problem'[t].v.input_testcases.v)]_vars

\* C18 witness: the thread keeps a problem decoded from an object with an
\* inputTestcases member, and the problem has no testcases.
C18_Witness ==
  \E t \in Threads :
    /\ DecodedFromTestcasesMember(t)
    /\ ProblemsOf(ret[t].v) # {}
    /\ problem[t].some
    /\ problem[t].v \in ProblemsOf(ret[t].v)
    /\ problem[t].v.input_testcases = None

(***************************************************************************)
(* Properties of the command model                                         *)
(***************************************************************************)

\* The fields of a command value.
FieldsOf(c) == DOMAIN c \ {"enum", "variant"}

\* The query key of a field: its name in camel case.
KeyOf(f) ==
  CASE f = "blog_entry_id" -> "blogEntryId" [] f = "contest_id" -> "contestId"
    [] f = "show_unofficial" -> "showUnofficial"
    [] f = "problemset_name" -> "problemsetName"
    [] f = "max_count" -> "maxCount" [] f = "only_online" -> "onlyOnline"
    [] f = "active_only" -> "activeOnly" [] OTHER -> f

\* The field is declared without Option.
IsRequired(c, f) ==
  \/ f \in {"blog_entry_id", "contest_id", "max_count"}
  \/ f = "count" /\ c.variant = "RecentStatus"
  \/ f = "handle" /\ c.enum = "CFUserCommand"
  \/ f = "handles" /\ c.variant = "Info"

\* The field has a value, and the value it has.
IsPresent(c, f) == IsRequired(c, f) \/ c[f].some
ValueOf(c, f) == IF IsRequired(c, f) THEN c[f] ELSE c[f].v

\* The number a string of decimal digits denotes (-1 when it is not one).
RECURSIVE DecimalValue(_)
DecimalValue(s) ==
  IF s = <<>> \/ \E i \in 1..Len(s) : s[i] \notin {DigitChars[k] : k \in 1..10}
  THEN -1
  ELSE IF Len(s) = 1 THEN (CHOOSE k \in 1..10 : DigitChars[k] = s[1]) - 1
  ELSE 10 * DecimalValue(SubSeq(s, 1, Len(s) - 1))
       + DecimalValue(<<s[Len(s)]>>)

\* s is the decimal text of n: no sign and no leading zero for n >= 0, a
\* leading '-' for n < 0.
IsDecimalOf(s, n) ==
  IF n < 0
  THEN /\ Len(s) >= 2
       /\ s[1] = "-"
       /\ s[2] # "0"
       /\ DecimalValue(Tail(s)) = 0 - n
  ELSE DecimalValue(s) = n /\ (Len(s) > 1 => s[1] # "0")

\* s is the elements of v joined by ';'.
RECURSIVE IsJoined(_, _)
IsJoined(s, v) ==
  IF v = <<>> THEN s = <<>>
  ELSE IF Len(v) = 1 THEN s = v[1]
  ELSE /\ Len(s) > Len(v[1])
       /\ SubSeq(s, 1, Len(v[1])) = v[1]
       /\ s[Len(v[1]) + 1] = ";"
       /\ IsJoined(SubSeq(s, Len(v[1]) + 2, Len(s)), Tail(v))

\* s is how the value x of field f is to be written.
IsRendered(s, f, x) ==
  CASE f \in {"gym", "show_unofficial", "only_online", "active_only"} ->
         s = (IF x THEN Str("true") ELSE Str("false"))
    [] f \in {"handles", "tags"} -> IsJoined(s, x)
    [] f \in {"handle", "problemset_name"} -> s = x
    [] OTHER -> IsDecimalOf(s, x)

\* C19: query_params yields, for every command value, exactly one pair for
\* each required field and each optional field that is Some, none for an
\* optional field that is None, and no other pair; booleans are written
\* "true"/"false", integers in decimal with '-' when negative, lists as
\* their elements joined by ';' (the empty list as the empty value).
C19_QueryParams ==
  \A t \in Threads :
    Signed(t) =>
      LET c == args[t].command
          P == sig[t].params
          own == {i \in 1..Len(P) : P[i][1] \notin {Str("apiKey"), Str("time")}}
      IN /\ Cardinality(own) =
              Cardinality({f \in FieldsOf(c) : IsPresent(c, f)})
         /\ \A f \in FieldsOf(c) :
              LET hits == {i \in own : P[i][1] = Str(KeyOf(f))}
              IN IF IsPresent(c, f)
                 THEN /\ Cardinality(hits) = 1
                      /\ \A i \in hits : IsRendered(P[i][2], f, ValueOf(c, f))
                 ELSE hits = {}

\* C19 witness: a signed contest.standings call with two handles, a
\* negative room, a boolean, and two optional fields left out.
C19_Witness ==
  \E t \in Threads :
    /\ Signed(t)
    /\ args[t].command =
         Standings(1477, None, None, Some(<<Str("thud"), Str("Ab")>>),
                   Some(-1), Some(FALSE))
    /\ \E i \in 1..Len(sig[t].params) :
         sig[t].params[i] = <<Str("handles"), Str("thud;Ab")>>
    /\ \E i \in 1..Len(sig[t].params) :
         sig[t].params[i] = <<Str("room"), Str("-1")>>

\* The remote method of each command variant, as the API names it.
RemoteMethods ==
  {<<"CFBlogEntryCommand", "Comments", "blogEntry.comments">>,
   <<"CFBlogEntryCommand", "View", "blogEntry.view">>,
   <<"CFContestCommand", "Hacks", "contest.hacks">>,
   <<"CFContestCommand", "List", "contest.list">>,
   <<"CFContestCommand", "RatingChanges", "contest.ratingChanges">>,
   <<"CFContestCommand", "Standings", "contest.standings">>,
   <<"CFContestCommand", "Status", "contest.status">>,
   <<"CFProblemsetCommand", "Problems", "problemset.problems">>,
   <<"CFProblemsetCommand", "RecentStatus", "problemset.recentStatus">>,
   <<"CFUserCommand", "BlogEntries", "user.blogEntries">>,
   <<"CFUserCommand", "Friends", "user.friends">>,
   <<"CFUserCommand", "Info", "user.info">>,
   <<"CFUserCommand", "RatedList", "user.ratedList">>,
   <<"CFUserCommand", "Rating", "user.rating">>,
   <<"CFUserCommand", "Status", "user.status">>,
   <<"CFRecentActionsCommand", "CFRecentActionsCommand", "recentActions">>}

\* The method name written into the url of thread t's call: the text
\* between the API stub and the first '?'.
UrlMethod(t) ==
  LET u == sig[t].url
      q == CHOOSE i \in 1..Len(u) :
             u[i] = "?" /\ \A j \in 1..(i - 1) : u[j] # "?"
  IN SubSeq(u, Len("https://codeforces.com/api/") + 1, q - 1)

\* C20: method_name is the fixed remote method string of the command's
\* variant, whatever the field values are, and another variant (with any
\* field values) has another string.
C20_MethodName ==
  \A t \in Threads :
    Signed(t) =>
      LET c == args[t].command
      IN /\ \E m \in RemoteMethods :
              /\ m[1] = c.enum
              /\ m[2] = c.variant
              /\ UrlMethod(t) = Str(m[3])
              /\ SubSeq(sig[t].to_hash, NonceLen + 2, NonceLen + 1 + Len(m[3]))
                   = Str(m[3])
         /\ \A d \in DispatchCommands :
              (Str(method_name_of(d)) = UrlMethod(t))
                <=> (d.enum = c.enum /\ d.variant = c.variant)

\* C20 witness: a signed user.status call, whose variant is called Status
\* as that of contest.status is.
C20_Witness ==
  \E t \in Threads :
    /\ Signed(t)
    /\ args[t].command = UserStatus(Str("Ab"), Some(1), None)
    /\ UrlMethod(t) = Str("user.status")

(***************************************************************************)
(* Properties of the signed parameter set                                  *)
(***************************************************************************)

\* C23: the sorted and signed set is the command's query_params plus one
\* apiKey pair carrying the api_key argument and one time pair carrying the
\* clock's whole seconds in decimal, and its keys are pairwise distinct.
C23_SignedSet ==
  \A t \in Threads :
    Signed(t) =>
      LET P == sig[t].params
          Q == query_params(args[t].command)
          keyed == {i \in 1..Len(P) : P[i][1] = Str("apiKey")}
          timed == {i \in 1..Len(P) : P[i][1] = Str("time")}
      IN /\ Len(P) = Len(Q) + 2
         /\ Cardinality(keyed) = 1
         /\ \A i \in keyed : P[i][2] = args[t].api_key
         /\ Cardinality(timed) = 1
         /\ \A i \in timed : IsDecimalOf(P[i][2], sig[t].now.secs)
         /\ \A j \in 1..Len(Q) :
              /\ Q[j][1] \notin {Str("apiKey"), Str("time")}
              /\ Occurrences(Q[j], P) = Occurrences(Q[j], Q)
         /\ \A i, j \in 1..Len(P) : i # j => P[i][1] # P[j][1]

\* C23 witness: a signed problemset.problems call with both optional
\* parameters, the two-character key and the clock at the epoch.
C23_Witness ==
  \E t \in Threads :
    /\ Signed(t)
    /\ args[t].command = Problems(Some(<<Str("Ab")>>), Some(Str("acmsguru")))
    /\ args[t].api_key = Str("Zz")
    /\ sig[t].now = ClockOk(0)
    /\ Len(sig[t].params) = 4

\* The pieces of s between occurrences of the character sep.
RECURSIVE SplitOn(_, _)
SplitOn(s, sep) ==
  IF \A i \in 1..Len(s) : s[i] # sep THEN <<s>>
  ELSE LET i == CHOOSE k \in 1..Len(s) :
                  s[k] = sep /\ \A j \in 1..(k - 1) : s[j] # sep
       IN <<SubSeq(s, 1, i - 1)>> \o SplitOn(SubSeq(s, i + 1, Len(s)), sep)

\* The key=value pairs read off the returned url: the text after the first
\* '?' split at every '&', each piece split at its first '='.
UrlPairs(t) ==
  LET u == sig[t].url
      q == CHOOSE i \in 1..Len(u) :
             u[i] = "?" /\ \A j \in 1..(i - 1) : u[j] # "?"
      items == SplitOn(SubSeq(u, q + 1, Len(u)), "&")
  IN [i \in 1..Len(items) |->
        LET kv == SplitOn(items[i], "=")
        IN <<kv[1], SubSeq(items[i], Len(kv[1]) + 2, Len(items[i]))>>]

\* C24 as stated: every key after '?', apiSig included, is in non-decreasing
\* order, ties broken by value.
C24_WholeQuerySorted ==
  \A t \in Threads :
    Signed(t) =>
      LET U == UrlPairs(t)
      IN \A i \in 1..(Len(U) - 1) : PairLeq(U[i], U[i + 1])

\* C24, amended: the pairs before the appended apiSig are in non-decreasing
\* order of key, ties broken by value; apiSig is the last pair of the url
\* and stands outside the order.
C24_SignedQuerySorted ==
  \A t \in Threads :
    Signed(t) =>
      LET U == UrlPairs(t)
      IN /\ Len(U) = Len(sig[t].params) + 1
         /\ U[Len(U)][1] = Str("apiSig")
         /\ \A i \in 1..(Len(U) - 1) : U[i][1] # Str("apiSig")
         /\ \A i \in 1..(Len(U) - 2) : PairLeq(U[i], U[i + 1])

\* C24 witness: a signed call with five pairs before apiSig, whose apiSig
\* key sorts before the key written just before it.
C24_Witness ==
  \E t \in Threads :
    /\ Signed(t)
    /\ Len(UrlPairs(t)) = 6
    /\ ByteLexLess(UrlPairs(t)[6][1], UrlPairs(t)[5][1])

\* C25: the signer panics exactly when the clock read fails, a panic is not
\* an Error value, and every other call returns a url.
C25_ClockOnly ==
  \A t \in Threads :
    (op[t] = "sign" /\ pc[t] # "idle") =>
      /\ sig[t].panic <=> ~sig[t].now.ok
      /\ sig[t].panic => pc[t] = "panicked" /\ ret[t] = Panicked
      /\ ~sig[t].panic =>
           /\ pc[t] = "done"
           /\ ret[t] = ROk(sig[t].url)
           /\ Len(sig[t].url) > Len("https://codeforces.com/api/")
           /\ SubSeq(sig[t].url, 1, Len("https://codeforces.com/api/"))
                = Str("https://codeforces.com/api/")

\* C25 witness: a call of the signer whose clock read failed.
C25_Witness ==
  \E t \in Threads :
    /\ op[t] = "sign"
    /\ sig[t].panic
    /\ sig[t].now = ClockErr
    /\ args[t].command = Info(<<>>)

\* C29: no key sorts after "time", the pair of time is the last of the
\* sorted set, the url ends "time=<t>&apiSig=<signature>", and the character
\* removed from the signing buffer is the '&' written after the time value.
C29_TimeLast ==
  \A t \in Threads :
    Signed(t) =>
      LET P == sig[t].params
          u == sig[t].url
          h == sig[t].to_hash
          tv == P[Len(P)][2]
          end == Str("time=") \o tv
          cut == Len(u) - SignatureLen - SigKeyLen
          signed == SubSeq(h, 1, Len(h) - Len(args[t].api_secret) - 1)
      IN /\ \A i \in 1..Len(P) :
              P[i][1] = Str("time") \/ ByteLexLess(P[i][1], Str("time"))
         /\ P[Len(P)][1] = Str("time")
         /\ IsDecimalOf(tv, sig[t].now.secs)
         /\ SubSeq(u, cut - Len(end), cut) = end \o <<"&">>
         /\ SubSeq(u, cut + 1, cut + SigKeyLen) = Str("apiSig=")
         /\ h[Len(signed) + 1] = "#"
         /\ SubSeq(signed, Len(signed) - Len(end) + 1, Len(signed)) = end
         /\ signed \o <<"&">>
              = sig[t].rand \o <<"/">> \o UrlMethod(t) \o <<"?">> \o UrlQuery(t)

\* C29 witness: a signed problemset.problems call with tags, the key that
\* comes nearest to "time", and a secret that begins with '&'.
C29_Witness ==
  \E t \in Threads :
    /\ Signed(t)
    /\ args[t].api_secret = Str("&x=1")
    /\ Len(sig[t].params) >= 3
    /\ sig[t].params[Len(sig[t].params) - 1][1] = Str("tags")

(***************************************************************************)
(* Properties of result resolution                                         *)
(***************************************************************************)

\* The order in which the variants of CFResult are declared.
DeclarationOrder ==
  <<"CFCommentVec", "CFBlogEntry", "CFHackVec", "CFContestVec",
    "CFRatingChangeVec", "CFContestStandings", "CFSubmissionVec",
    "CFProblemset", "CFRecentActionVec", "CFBlogEntryVec", "CFFriends",
    "CFUserVec">>

\* The type a variant of CFResult wraps.
WrappedBy(name) ==
  LET V == CFResult.variants
  IN V[CHOOSE i \in 1..Len(V) : V[i].name = name].ty

\* The places in DeclarationOrder of the variants the JSON value r has the
\* structure of.
Matching(r) ==
  {i \in 1..Len(DeclarationOrder) : De(WrappedBy(DeclarationOrder[i]), r).ok}

\* Thread t's get was answered by an envelope with the given status, a
\* result member that is there and a comment member that is absent, null
\* or a string.
AnsweredWithResult(t, status) ==
  /\ GetAnsweredJson(t)
  /\ \/ response[t].body.j.k = "obj"
     \/ response[t].body.j.k = "arr" /\ Len(response[t].body.j.a) = 3
  /\ WireMember(response[t].body.j, "status") = JStr(status)
  /\ WireMember(response[t].body.j, "result").k \notin {"absent", "null"}
  /\ WireMember(response[t].body.j, "comment").k \in {"absent", "null", "str"}

\* C27: the result of a success envelope resolves to the first variant, in
\* declaration order, whose structure it has, whatever the command; when it
\* has the structure of none get returns Error::Parse; an empty array
\* resolves to CFCommentVec with an empty list.
C27_FirstMatch ==
  \A t \in Threads :
    AnsweredWithResult(t, "OK") =>
      LET r == WireMember(response[t].body.j, "result")
          M == Matching(r)
          first == CHOOSE i \in M : \A k \in M : i <= k
      IN /\ Len(CFResult.variants) = Len(DeclarationOrder)
         /\ IF M = {}
            THEN ret[t].kind = "Err" /\ ret[t].error.variant = "Parse"
            ELSE ret[t] =
                   ROk([variant |-> DeclarationOrder[first],
                        v |-> De(WrappedBy(DeclarationOrder[first]), r).v])
         /\ r = JArr(<<>>) =>
              ret[t] = ROk([variant |-> "CFCommentVec", v |-> <<>>])

\* C27 witness: user.friends answered by an empty array, which has the
\* structure of nine variants, resolved to CFCommentVec.
C27_Witness ==
  \E t \in Threads :
    /\ AnsweredWithResult(t, "OK")
    /\ args[t].command = Friends(None)
    /\ WireMember(response[t].body.j, "result") = JArr(<<>>)
    /\ Cardinality(Matching(JArr(<<>>))) = 9
    /\ ret[t] = ROk([variant |-> "CFCommentVec", v |-> <<>>])

\* C28: with status OK and a decodable result get returns Ok(result) even
\* if a comment is there; with status FAILED and a comment string get
\* returns Error::CodeforcesApi(comment) even if a decodable result is
\* there.
C28_StatusSelects ==
  \A t \in Threads :
    /\ (/\ AnsweredWithResult(t, "OK")
        /\ De(CFResult, WireMember(response[t].body.j, "result")).ok)
       => ret[t] = ROk(De(CFResult, WireMember(response[t].body.j, "result")).v)
    /\ (/\ AnsweredWithResult(t, "FAILED")
        /\ De(CFResult, WireMember(response[t].body.j, "result")).ok
        /\ WireMember(response[t].body.j, "comment").k = "str")
       => ret[t] =
            RErr(CodeforcesApi(WireMember(response[t].body.j, "comment").s))

\* C28 witness: a FAILED envelope that carries a blog entry as its result
\* beside its comment, answered with Error::CodeforcesApi.
C28_Witness ==
  \E t \in Threads :
    /\ AnsweredWithResult(t, "FAILED")
    /\ WireMember(response[t].body.j, "result") = J_BlogEntry
    /\ WireMember(response[t].body.j, "comment").k = "str"
    /\ ret[t].kind = "Err"
    /\ ret[t].error.variant = "CodeforcesApi"

(***************************************************************************)
(* Properties of the secret                                                *)
(***************************************************************************)

\* The string sub occurs in s.
Contains(s, sub) ==
  \E i \in 1..(Len(s) - Len(sub) + 1) : SubSeq(s, i, i + Len(sub) - 1) = sub

\* The url without the hex digest that ends it.
UpToNonce(t) == SubSeq(sig[t].url, 1, Len(sig[t].url) - 2 * DigestLen)

\* C30: two signed calls equal in command, api_key, nonce and timestamp have
\* urls of one length that are the same up to and including
\* "apiSig=<nonce>", whatever their secrets; that part of a url does not
\* hold the secret.
C30_SecretOnlyInDigest ==
  \A t \in Threads :
    Signed(t) =>
      /\ ~Contains(UpToNonce(t), args[t].api_secret)
      /\ SubSeq(UpToNonce(t), Len(UpToNonce(t)) - NonceLen - SigKeyLen + 1,
                Len(UpToNonce(t))) = Str("apiSig=") \o sig[t].rand
      /\ \A u \in Threads :
           (/\ Signed(u)
            /\ args[u].command = args[t].command
            /\ args[u].api_key = args[t].api_key
            /\ sig[u].rand = sig[t].rand
            /\ sig[u].now = sig[t].now)
           => /\ Len(sig[u].url) = Len(sig[t].url)
              /\ UpToNonce(u) = UpToNonce(t)

\* C30 witness: two signed calls that differ in the secret alone, whose
\* urls differ.
C30_Witness ==
  \E t, u \in Threads :
    /\ Signed(t)
    /\ Signed(u)
    /\ args[u].command = args[t].command
    /\ args[u].api_key = args[t].api_key
    /\ sig[u].rand = sig[t].rand
    /\ sig[u].now = sig[t].now
    /\ args[t].api_secret = Str("acc9a2")
    /\ args[u].api_secret = Str("&x=1")
    /\ sig[u].url # sig[t].url

(***************************************************************************)
(* Properties of the calls as a whole                                      *)
(***************************************************************************)

\* Thread t is inside or at the end of a call of one of the operations.
InCall(t, ops) == pc[t] # "idle" /\ op[t] \in ops

\* C21 as stated: every call of get, get_raw and
\* fetch_testcases_for_problem issues exactly one fetch and then returns; a
\* failed fetch is returned at once; fetch_testcases issues at most one.
C21_ExactlyOneFetch ==
  \A t \in Threads :
    /\ InCall(t, {"get", "get_raw", "fetch_testcases_for_problem"}) =>
         /\ fetches[t] = 1
         /\ pc[t] \in {"fetching", "done"}
    /\ (pc[t] # "idle" /\ response[t].kind = "fetch_err") =>
         pc[t] = "done" /\ ret[t] = RErr(Http(response[t].e))
    /\ InCall(t, {"fetch_testcases"}) => fetches[t] <= 1

\* C21, amended: every call issues at most one fetch.  get and get_raw
\* issue none exactly when the clock read of the signer failed and the call
\* panicked, fetch_testcases_for_problem always issues one, fetch_testcases
\* issues none exactly when it returned early.  Until the answer comes the
\* call waits; with the answer it ends, by returning or by panicking, and
\* issues nothing more; a failed fetch is returned as Error::Http.
C21_OneFetch ==
  \A t \in Threads :
    pc[t] # "idle" =>
      /\ fetches[t] <= 1
      /\ op[t] \in {"get", "get_raw"} =>
           (fetches[t] = 0 <=> (sig[t].panic /\ pc[t] = "panicked"))
      /\ op[t] = "fetch_testcases_for_problem" => fetches[t] = 1
      /\ op[t] = "fetch_testcases" =>
           (fetches[t] = 0 <=>
              (/\ pc[t] = "done"
               /\ response[t] = NoResponse
               /\ ret[t].kind = "Err"
               /\ ret[t].error.variant = "Testcases"))
      /\ pc[t] = "fetching" =>
           fetches[t] = 1 /\ response[t] = NoResponse /\ ret[t] = NoRet
      /\ response[t] # NoResponse =>
           /\ fetches[t] = 1
           /\ pc[t] \in {"done", "panicked"}
           /\ ret[t] # NoRet
           /\ pc[t] = "done" <=> ret[t].kind \in {"Ok", "Err"}
      /\ response[t].kind = "fetch_err" =>
           pc[t] = "done" /\ ret[t] = RErr(Http(response[t].e))

\* C21 witness: one thread's get has returned the error of its failed fetch,
\* the other's fetch_testcases has returned early without a fetch.
C21_Witness ==
  \E t, u \in Threads :
    /\ op[t] = "get"
    /\ pc[t] = "done"
    /\ response[t] = FetchErr("connect")
    /\ fetches[t] = 1
    /\ op[u] = "fetch_testcases"
    /\ pc[u] = "done"
    /\ fetches[u] = 0

\* What thread t holds: its place, its call's arguments and locals, the
\* answer to its fetch, its result and its CFProblem.
Own(t) ==
  <<pc[t], op[t], args[t], sig[t], fetches[t], response[t], ret[t], problem[t]>>

\* What thread t holds follows from its own arguments, nonce, clock read
\* and answer.
OwnResult(t) ==
  CASE pc[t] = "idle" -> ret[t] = NoRet /\ response[t] = NoResponse
    [] pc[t] # "idle" /\ op[t] \in {"get", "get_raw"} ->
         /\ sig[t].panic <=> ~sig[t].now.ok
         /\ sig[t].panic => ret[t] = Panicked
         /\ ~sig[t].panic =>
              /\ sig[t].ctime = sig[t].now.secs
              /\ SubSeq(sig[t].url, Len(API_STUB) + 1,
                        Len(API_STUB) + Len(method_name_of(args[t].command)))
                   = Str(method_name_of(args[t].command))
              /\ \E i \in 1..Len(sig[t].params) :
                   sig[t].params[i] = <<Str("apiKey"), args[t].api_key>>
              /\ SubSeq(sig[t].to_hash, 1, NonceLen) = sig[t].rand
              /\ ret[t] =
                   (IF response[t] = NoResponse THEN NoRet
                    ELSE IF op[t] = "get"
                    THEN send_codeforces_api_req(response[t])
                    ELSE get_url_raw(response[t]))
    [] pc[t] # "idle" /\ op[t] = "fetch_testcases_for_problem" ->
         /\ args[t].url = problem_url(args[t].contest_id, args[t].problem_index)
         /\ ret[t] = (IF response[t] = NoResponse THEN NoRet
                      ELSE fetch_testcases_for_problem(response[t]))
    [] pc[t] # "idle" /\ op[t] = "fetch_testcases" ->
         /\ problem[t].some
         /\ IF fetches[t] = 0
            THEN ret[t] = RErr(precondition(problem[t].v).v)
            ELSE /\ args[t].contest_id = problem[t].v.contest_id.v
                 /\ args[t].problem_index = problem[t].v.index.v
                 /\ ret[t] = (IF response[t] = NoResponse THEN NoRet
                              ELSE fetch_testcases_for_problem(response[t]))
                 /\ ret[t].kind = "Ok" =>
                      problem[t].v.input_testcases = Some(ret[t].v)

\* C22: in every interleaving a step is a step of one call and changes
\* nothing another thread holds, and what the stepping thread then holds
\* follows from its own arguments, nonce, clock read and answer.
C22_Isolation ==
  [][/\ \E t \in Threads : \A u \in Threads \ {t} : Own(u)' = Own(u)
     /\ \A t \in Threads : Own(t)' # Own(t) => OwnResult(t)']_vars

\* C22 witness: both threads called get on one command; the first is still
\* waiting while the second, called with another nonce, has its result.
C22_Witness ==
  /\ op["t1"] = "get"
  /\ op["t2"] = "get"
  /\ args["t1"].command = args["t2"].command
  /\ pc["t1"] = "fetching"
  /\ pc["t2"] = "done"
  /\ sig["t1"].rand # sig["t2"].rand
  /\ ret["t2"] = ROk([variant |-> "CFCommentVec", v |-> <<>>])

\* The decimal digits of the numbers the generator returned, in order.
NonceOf(draws) == [i \in 1..Len(draws) |-> DigitChars[draws[i] + 1]]

\* The request of thread t's call is made of what the generator and the
\* clock returned during this call.
OwnNonceAndTime(t) ==
  InCall(t, {"get", "get_raw"}) =>
    /\ sig[t].rand = NonceOf(args[t].draws)
    /\ sig[t].now = args[t].now
    /\ ~args[t].now.ok => pc[t] = "panicked"
    /\ args[t].now.ok =>
         /\ SubSeq(UrlSignature(t), 1, NonceLen) = NonceOf(args[t].draws)
         /\ \E i \in 1..Len(UrlPairs(t)) :
              /\ UrlPairs(t)[i][1] = Str("time")
              /\ IsDecimalOf(UrlPairs(t)[i][2], args[t].now.secs)

\* From the call to the drop of its result the command, the key and the
\* secret stay as they were passed.
ArgumentsKept(t) ==
  (pc[t] # "idle" /\ pc'[t] # "idle") => args'[t] = args[t]

\* C26: get and get_raw leave the command as it was passed, and every call,
\* whatever calls were made before it and whatever they signed, sends a
\* request made of the nonce drawn and the time read during that call.
C26_NothingKept ==
  /\ [](\A t \in Threads : OwnNonceAndTime(t))
  /\ [][\A t \in Threads : ArgumentsKept(t)]_vars

\* C26 witness: a get on a command has returned, and a later call on the
\* same command, key and secret carries another nonce and another time.
C26_Witness ==
  \E t, u \in Threads :
    /\ op[t] = "get"
    /\ pc[t] = "done"
    /\ op[u] = "get_raw"
    /\ pc[u] = "fetching"
    /\ args[u].command = args[t].command
    /\ args[u].api_key = args[t].api_key
    /\ args[u].api_secret = args[t].api_secret
    /\ sig[u].rand # sig[t].rand
    /\ sig[u].ctime # sig[t].ctime
    /\ sig[u].url # sig[t].url

====
